---- MODULE Spec2Model ----
(***************************************************************************)
(* A model of fpylll/algorithms/bkz_stats.py: Statistic, TraceContext,     *)
(* Node, TimeTreeTracer and BKZTreeTracer.                                 *)
(*                                                                         *)
(* Python numbers are modelled as exact integers; the quotients computed   *)
(* by Statistic.avg and Statistic.variance are exact rationals <<n, d>>.   *)
(* Objects (Statistic, Node) live in heaps indexed by identity.            *)
(***************************************************************************)
EXTENDS Integers, Sequences, FiniteSets, TLC

VARIABLES
    sheap,      \* Statistic objects, by identity (index)
    hist,       \* history of sheap[1]: seed, counted, values passed to add
    sres,       \* the last Statistic operation and what it returned
    nodes,      \* Node objects, by identity (index): label, parent, children, data
    nres,       \* the last Node operation and what it returned
    cret,       \* the first call of Node.child: receiver, label, node returned
    misuse,     \* the calls so far that linked nodes past Node.child
    tracer,     \* the tracer object: kind, verbosity, instance, trace, current
    clock,      \* what time.clock() (cpu) and time.time() (wall) return now
    scopes,     \* the TraceContext objects whose with-block is open, outermost first
    pending,    \* the exception being propagated, if any
    calls,      \* the calls of tracer.enter and tracer.exit made so far
    spent,      \* per node: the time between enter and exit summed over its visits
    out         \* what the tracer has printed: the reports, with the node of each

statVars == <<sheap, hist, sres>>
nodeVars == <<nodes, nres, cret, misuse>>
traceVars == <<tracer, clock, scopes, pending, calls, spent, out>>
vars == <<sheap, hist, sres, nodes, nres, cret, misuse,
          tracer, clock, scopes, pending, calls, spent, out>>

(***************************************************************************)
(* Bounds                                                                  *)
(***************************************************************************)
MaxAdds == 2
PoolAdds == 1
MaxNodes == 4
MaxScopes == 2
MaxClock == 3
MergeSize == 4
QuerySize == 3
FindSize == 5
MaxObjs == 3
GetSize == 3
ReportScopes == 4
EnumScopes == 3

Vals == {-1, 0, 2}
PoolVals == {-1, 2}
Modes == {"min", "max", "avg", "sum", "variance"}

(***************************************************************************)
(* Numbers                                                                 *)
(***************************************************************************)
Min2(a, b) == IF a <= b THEN a ELSE b
Max2(a, b) == IF a >= b THEN a ELSE b
Abs(a) == IF a < 0 THEN -a ELSE a

RECURSIVE Gcd(_, _)
Gcd(a, b) == IF b = 0 THEN a ELSE Gcd(b, a % b)

\* The exact quotient n/d (d # 0) in lowest terms with a positive denominator.
Rat(n, d) ==
    LET g == Gcd(Abs(n), Abs(d))
        s == IF d < 0 THEN -1 ELSE 1
    IN  <<(s * n) \div g, (s * d) \div g>>
RatSub(p, q) == Rat(p[1] * q[2] - q[1] * p[2], p[2] * q[2])
RatMul(p, q) == Rat(p[1] * q[1], p[2] * q[2])

RECURSIVE SeqSum(_)
SeqSum(s) == IF s = <<>> THEN 0 ELSE Head(s) + SeqSum(Tail(s))
RECURSIVE SeqSumSq(_)
SeqSumSq(s) == IF s = <<>> THEN 0 ELSE Head(s) * Head(s) + SeqSumSq(Tail(s))

(***************************************************************************)
(* Statistic                                                               *)
(***************************************************************************)
Raise(e) == [ok |-> FALSE, exc |-> e]
Return(v) == [ok |-> TRUE, val |-> v]

\* Statistic.__init__(value, repr, count)
Statistic_init(value, repr, count) ==
    [repr |-> repr, min |-> value, max |-> value, sum |-> value,
     sqr |-> value * value, ctr |-> IF count THEN 1 ELSE 0]

\* A faulty add that overwrites the running sum instead of accumulating it.
Statistic_add_overwrite(self, value) ==
    [self EXCEPT !.min = Min2(@, value), !.max = Max2(@, value),
                 !.sum = value, !.sqr = @ + value * value, !.ctr = @ + 1]

\* Statistic.add(value): the fields of self after the call
Statistic_add(self, value) ==
    [self EXCEPT !.min = Min2(@, value), !.max = Max2(@, value),
                 !.sum = @ + value, !.sqr = @ + value * value, !.ctr = @ + 1]

\* v.add(values[1]); ...; v.add(values[n])
RECURSIVE AddAll(_, _)
AddAll(s, values) ==
    IF values = <<>> THEN s ELSE AddAll(Statistic_add(s, Head(values)), Tail(values))

\* Statistic.avg: self._sum/self._ctr
Statistic_avg(self) ==
    IF self.ctr = 0 THEN Raise("ZeroDivisionError")
    ELSE Return(Rat(self.sum, self.ctr))

\* Statistic.variance: self._sqr/self._ctr - self.avg**2
Statistic_variance(self) ==
    IF self.ctr = 0 THEN Raise("ZeroDivisionError")
    ELSE LET a == Statistic_avg(self).val
         IN  Return(RatSub(Rat(self.sqr, self.ctr), RatMul(a, a)))

\* Statistic.__float__: float(getattr(self, self._repr)), as an exact quotient
Statistic__float__(self) ==
    CASE self.repr = "min" -> Return(Rat(self.min, 1))
      [] self.repr = "max" -> Return(Rat(self.max, 1))
      [] self.repr = "sum" -> Return(Rat(self.sum, 1))
      [] self.repr = "avg" -> Statistic_avg(self)
      [] self.repr = "variance" -> Statistic_variance(self)
      [] OTHER -> Raise("AttributeError")

\* Python values as they occur as operands and in Node.data: None, a number,
\* a Statistic held by value (s), or a Statistic object of a heap (id).
NoStat == [repr |-> "none", min |-> 0, max |-> 0, sum |-> 0, sqr |-> 0, ctr |-> 0]
PyNone == [n |-> 0, s |-> NoStat, kind |-> "none", id |-> 0]
PyNum(v) == [n |-> v, s |-> NoStat, kind |-> "num", id |-> 0]
PyStat(st) == [n |-> 0, s |-> st, kind |-> "stat", id |-> 0]
PyRef(i) == [n |-> 0, s |-> NoStat, kind |-> "ref", id |-> i]

\* The outcome of a call on a heap of objects: the heap afterwards, and the
\* returned object's identity (val) or the exception raised (exc).
Returned(heap, val) == [ok |-> TRUE, exc |-> "", val |-> val, heap |-> heap]
Raised(heap, exc) == [ok |-> FALSE, exc |-> exc, val |-> 0, heap |-> heap]

\* A faulty __add__ whose Statistic branch drops the right operand's count.
Statistic__add__lossy(heap, self, other) ==
    IF other.kind = "none" THEN Returned(Append(heap, heap[self]), Len(heap) + 1)
    ELSE IF other.kind = "num" THEN
        Returned(Append(heap, Statistic_add(heap[self], other.n)), Len(heap) + 1)
    ELSE LET a == heap[self]
             b == heap[other.id]
         IN  IF a.repr # b.repr THEN Raised(heap, "ValueError")
             ELSE Returned(Append(heap,
                     [repr |-> a.repr, min |-> Min2(a.min, b.min),
                      max |-> Max2(a.max, b.max), sum |-> a.sum + b.sum,
                      sqr |-> a.sqr + b.sqr, ctr |-> a.ctr]), Len(heap) + 1)

\* A faulty __add__ whose Statistic branch keeps the left operand's minimum.
Statistic__add__leftmin(heap, self, other) ==
    IF other.kind = "none" THEN Returned(Append(heap, heap[self]), Len(heap) + 1)
    ELSE IF other.kind = "num" THEN
        Returned(Append(heap, Statistic_add(heap[self], other.n)), Len(heap) + 1)
    ELSE LET a == heap[self]
             b == heap[other.id]
         IN  IF a.repr # b.repr THEN Raised(heap, "ValueError")
             ELSE Returned(Append(heap,
                     [repr |-> a.repr, min |-> a.min,
                      max |-> Max2(a.max, b.max), sum |-> a.sum + b.sum,
                      sqr |-> a.sqr + b.sqr, ctr |-> a.ctr + b.ctr]), Len(heap) + 1)

\* A faulty __add__ whose number branch inserts into self without copying.
Statistic__add__inplace(heap, self, other) ==
    IF other.kind = "none" THEN Returned(Append(heap, heap[self]), Len(heap) + 1)
    ELSE IF other.kind = "num" THEN
        Returned([heap EXCEPT ![self] = Statistic_add(@, other.n)], self)
    ELSE LET a == heap[self]
             b == heap[other.id]
         IN  IF a.repr # b.repr THEN Raised(heap, "ValueError")
             ELSE Returned(Append(heap,
                     [repr |-> a.repr, min |-> Min2(a.min, b.min),
                      max |-> Max2(a.max, b.max), sum |-> a.sum + b.sum,
                      sqr |-> a.sqr + b.sqr, ctr |-> a.ctr + b.ctr]), Len(heap) + 1)

\* Statistic.__add__(self, other) on a heap of Statistic objects; other is
\* None, a number, or (a reference to) a Statistic.  copy.copy(self) and
\* Statistic(0) allocate a new object.
Statistic__add__(heap, self, other) ==
    IF other.kind = "none" THEN Returned(Append(heap, heap[self]), Len(heap) + 1)
    ELSE IF other.kind = "num" THEN
        Returned(Append(heap, Statistic_add(heap[self], other.n)), Len(heap) + 1)
    ELSE LET a == heap[self]
             b == heap[other.id]
         IN  IF a.repr # b.repr THEN Raised(heap, "ValueError")
             ELSE Returned(Append(heap,
                     [repr |-> a.repr, min |-> Min2(a.min, b.min),
                      max |-> Max2(a.max, b.max), sum |-> a.sum + b.sum,
                      sqr |-> a.sqr + b.sqr, ctr |-> a.ctr + b.ctr]), Len(heap) + 1)

\* Statistic.__radd__(self, other): self + other
Statistic__radd__(heap, self, other) == Statistic__add__(heap, self, other)

(***************************************************************************)
(* Python values and OrderedDict                                           *)
(***************************************************************************)
\* x + y for the values held in Node.data (numbers and Statistics):
\* number + number, Statistic.__add__, or Statistic.__radd__ when only the
\* right operand is a Statistic.
PyAdd(x, y) ==
    IF x.kind = "num" /\ y.kind = "num" THEN [ok |-> TRUE, exc |-> "", val |-> PyNum(x.n + y.n)]
    ELSE IF x.kind = "stat" THEN
        LET r == IF y.kind = "stat"
                 THEN Statistic__add__(<<x.s, y.s>>, 1, PyRef(2))
                 ELSE Statistic__add__(<<x.s>>, 1, y)
        IN  IF r.ok THEN [ok |-> TRUE, exc |-> "", val |-> PyStat(r.heap[r.val])]
            ELSE [ok |-> FALSE, exc |-> r.exc, val |-> PyNone]
    ELSE IF y.kind = "stat" THEN
        LET r == Statistic__radd__(<<y.s>>, 1, x)
        IN  [ok |-> TRUE, exc |-> "", val |-> PyStat(r.heap[r.val])]
    ELSE [ok |-> FALSE, exc |-> "TypeError", val |-> PyNone]

\* An OrderedDict is a sequence of items [k, v] in insertion order.
DictKeys(d) == {d[i].k : i \in 1..Len(d)}
DictIndex(d, k) == CHOOSE i \in 1..Len(d) : d[i].k = k
\* d[k] for k in d
DictItem(d, k) == d[DictIndex(d, k)].v
\* d.get(k, default)
DictGet(d, k, default) == IF k \in DictKeys(d) THEN DictItem(d, k) ELSE default
\* d[k] = v
DictSet(d, k, v) ==
    IF k \in DictKeys(d) THEN [d EXCEPT ![DictIndex(d, k)].v = v]
    ELSE Append(d, [v |-> v, k |-> k])

(***************************************************************************)
(* Node                                                                    *)
(***************************************************************************)
\* Labels: a string s, or a tuple (s, i).
LStr(s) == [s |-> s, i |-> 0, tuple |-> FALSE]
LTup(s, i) == [s |-> s, i |-> i, tuple |-> TRUE]

Range(f) == {f[i] : i \in DOMAIN f}

\* Node.__init__(label, parent, data); parent 0 is None.
Node_init(heap, label, parent, data) ==
    Returned(Append(heap, [label |-> label, parent |-> parent, data |-> data,
                           children |-> <<>>]), Len(heap) + 1)

\* A faulty add_child that does not set the back-reference.
Node_add_child_noparent(heap, self, child) ==
    Returned([heap EXCEPT ![self].children = Append(@, child)], child)

\* Node.add_child(child)
Node_add_child(heap, self, child) ==
    Returned([[heap EXCEPT ![child].parent = self]
                    EXCEPT ![self].children = Append(@, child)], child)

\* A faulty child that never looks for an existing child.
Node_child_always_new(heap, self, label) ==
    LET n == Node_init(heap, label, 0, <<>>)
    IN  Node_add_child(n.heap, self, n.val)

\* A faulty child that returns the last child carrying the label.
Node_child_last(heap, self, label) ==
    LET ch == heap[self].children
        hits == {i \in 1..Len(ch) : heap[ch[i]].label = label}
    IN  IF hits # {}
        THEN Returned(heap, ch[CHOOSE i \in hits : \A j \in hits : j <= i])
        ELSE LET n == Node_init(heap, label, 0, <<>>)
             IN  Node_add_child(n.heap, self, n.val)

\* Node.child(label)
Node_child(heap, self, label) ==
    LET ch == heap[self].children
        hits == {i \in 1..Len(ch) : heap[ch[i]].label = label}
    IN  IF hits # {}
        THEN Returned(heap, ch[CHOOSE i \in hits : \A j \in hits : i <= j])
        ELSE LET n == Node_init(heap, label, 0, <<>>)
             IN  Node_add_child(n.heap, self, n.val)

\* A faulty merge loop that stores the other tree's value instead of adding it.
MergeData_overwrite(sd, items, i) ==
    IF i > Len(items) THEN [d |-> sd, ok |-> TRUE, exc |-> ""]
    ELSE [d |-> LET Put[j \in 0..Len(items)] ==
                        IF j = 0 THEN sd ELSE DictSet(Put[j - 1], items[j].k, items[j].v)
                IN  Put[Len(items)],
          ok |-> TRUE, exc |-> ""]

\* The loop over node.data of Node.merge, from item i on: the data of self
\* afterwards, or the exception of the += that failed.
RECURSIVE MergeData(_, _, _)
MergeData(sd, items, i) ==
    IF i > Len(items) THEN [d |-> sd, ok |-> TRUE, exc |-> ""]
    ELSE LET k == items[i].k
             v == items[i].v
         IN  IF k \in DictKeys(sd)
             THEN LET r == PyAdd(DictItem(sd, k), v)
                  IN  IF r.ok THEN MergeData(DictSet(sd, k, r.val), items, i + 1)
                      ELSE [d |-> sd, ok |-> FALSE, exc |-> r.exc]
             ELSE MergeData(DictSet(sd, k, v), items, i + 1)

\* Node.merge(node); MergeChildren is its loop over node.children from
\* position i on.
RECURSIVE Node_merge(_, _, _)
RECURSIVE MergeChildren(_, _, _, _)
MergeChildren(heap, self, node, i) ==
    IF i > Len(heap[node].children) THEN Returned(heap, 0)
    ELSE LET c == heap[node].children[i]
             r == Node_child(heap, self, heap[c].label)
             m == Node_merge(r.heap, r.val, c)
         IN  IF m.ok THEN MergeChildren(m.heap, self, node, i + 1) ELSE m

Node_merge(heap, self, node) ==
    LET d == MergeData(heap[self].data, heap[node].data, 1)
        h == [heap EXCEPT ![self].data = d.d]
    IN  IF d.ok THEN MergeChildren(h, self, node, 1) ELSE Raised(h, d.exc)

\* Node.level: the number of parent steps to a node without parent.  On a
\* parent cycle the loop does not end (modelled as -1).
RECURSIVE LevelFrom(_, _, _)
LevelFrom(heap, node, level) ==
    IF heap[node].parent = 0 THEN level
    ELSE IF level >= Len(heap) THEN -1
    ELSE LevelFrom(heap, heap[node].parent, level + 1)
Node_level(heap, self) == LevelFrom(heap, self, 0)

\* The nodes reachable from the nodes of S by following children.
RECURSIVE Reach(_, _)
Reach(heap, S) ==
    LET T == S \cup UNION {Range(heap[n].children) : n \in S}
    IN  IF T = S THEN S ELSE Reach(heap, T)
Subtree(heap, n) == Reach(heap, {n})
Descendants(heap, n) == Reach(heap, Range(heap[n].children))

\* The label argument left at its default None
LNone == [none |-> TRUE]

\* A Node.sum that folds over the immediate children only.
Node_sum_shallow(heap, self, tag, include_self, raise_keyerror, label) ==
    LET Own(n, incl) ==
            IF incl /\ (label = LNone \/ heap[n].label = label)
            THEN IF raise_keyerror
                 THEN IF tag \in DictKeys(heap[n].data)
                      THEN [ok |-> TRUE, exc |-> "", val |-> DictItem(heap[n].data, tag)]
                      ELSE [ok |-> FALSE, exc |-> "KeyError", val |-> PyNone]
                 ELSE [ok |-> TRUE, exc |-> "", val |-> DictGet(heap[n].data, tag, PyNum(0))]
            ELSE [ok |-> TRUE, exc |-> "", val |-> PyNum(0)]
        kids == heap[self].children
        Fold[i \in 0..Len(kids)] ==
            IF i = 0 THEN Own(self, include_self)
            ELSE IF ~Fold[i - 1].ok THEN Fold[i - 1]
            ELSE LET c == Own(kids[i], TRUE)
                 IN  IF ~c.ok THEN c ELSE PyAdd(Fold[i - 1].val, c.val)
    IN  Fold[Len(kids)]

\* Node.sum: the node's own value, then r = r + child.sum(...) child by child
RECURSIVE Node_sum(_, _, _, _, _, _), SumChildren(_, _, _, _, _, _, _)
Node_sum(heap, self, tag, include_self, raise_keyerror, label) ==
    IF include_self /\ (label = LNone \/ heap[self].label = label)
    THEN IF raise_keyerror
         THEN IF tag \in DictKeys(heap[self].data)
              THEN SumChildren(heap, self, tag, raise_keyerror, label,
                               DictItem(heap[self].data, tag), 1)
              ELSE [ok |-> FALSE, exc |-> "KeyError", val |-> PyNone]
         ELSE SumChildren(heap, self, tag, raise_keyerror, label,
                          DictGet(heap[self].data, tag, PyNum(0)), 1)
    ELSE SumChildren(heap, self, tag, raise_keyerror, label, PyNum(0), 1)

\* The loop over self.children of Node.sum, from child i on, r being the sum
\* so far.
SumChildren(heap, self, tag, raise_keyerror, label, r, i) ==
    IF i > Len(heap[self].children) THEN [ok |-> TRUE, exc |-> "", val |-> r]
    ELSE LET c == Node_sum(heap, heap[self].children[i], tag, TRUE, raise_keyerror, label)
         IN  IF ~c.ok THEN c
             ELSE LET a == PyAdd(r, c.val)
                  IN  IF ~a.ok THEN a
                      ELSE SumChildren(heap, self, tag, raise_keyerror, label, a.val, i + 1)

\* Node.find: val is the node returned, 0 for None.  FindBelow is its second
\* loop from child i on: the first child.find that returns ends the search,
\* whatever it returns; one that raises KeyError lets the loop go on.
RECURSIVE Node_find(_, _, _, _), FindBelow(_, _, _, _, _)
Node_find(heap, self, label, raise_keyerror) ==
    LET ch == heap[self].children
        hits == {i \in 1..Len(ch) : heap[ch[i]].label = label}
    IN  IF hits # {}
        THEN [ok |-> TRUE, exc |-> "", val |-> ch[CHOOSE i \in hits : \A j \in hits : i <= j]]
        ELSE FindBelow(heap, self, label, raise_keyerror, 1)

FindBelow(heap, self, label, raise_keyerror, i) ==
    IF i > Len(heap[self].children)
    THEN IF raise_keyerror THEN [ok |-> FALSE, exc |-> "KeyError", val |-> 0]
         ELSE [ok |-> TRUE, exc |-> "", val |-> 0]
    ELSE LET r == Node_find(heap, heap[self].children[i], label, raise_keyerror)
         IN  IF r.ok \/ r.exc # "KeyError" THEN r
             ELSE FindBelow(heap, self, label, raise_keyerror, i + 1)

\* The depth argument of report: None, or a number
DNone == [n |-> 0, none |-> TRUE]
DNum(n) == [n |-> n, none |-> FALSE]

\* Node.report: the lines of the string returned, a line being its number of
\* leading spaces and the node whose str() follows them.  ReportChildren is the
\* loop over self.children from child i on; it rebinds depth at every child.
RECURSIVE Node_report(_, _, _, _), ReportChildren(_, _, _, _, _)
Node_report(heap, self, indentation, depth) ==
    <<[node |-> self, indent |-> indentation]>> \o
        (IF depth.none \/ depth.n > 0
         THEN ReportChildren(heap, self, indentation, depth, 1)
         ELSE <<>>)

ReportChildren(heap, self, indentation, depth, i) ==
    IF i > Len(heap[self].children) THEN <<>>
    ELSE LET depth1 == IF depth.none THEN DNone ELSE DNum(depth.n - 1)
         IN  Node_report(heap, heap[self].children[i], indentation + 2, depth1)
                 \o ReportChildren(heap, self, indentation, depth1, i + 1)

\* child.label[0] == label for a tuple label of child
LabelHeads(heap, c, label) ==
    heap[c].label.tuple /\ ~label.tuple /\ heap[c].label.s = label.s

\* A faulty get that prefers the tuple-labelled children to an equal label.
Node_get_family(heap, self, label) ==
    LET ch == heap[self].children
        hits == {i \in 1..Len(ch) : heap[ch[i]].label = label}
        Heads(c) == LabelHeads(heap, c, label)
        r == SelectSeq(ch, Heads)
    IN  IF r # <<>> THEN [ok |-> TRUE, exc |-> "", val |-> r, shape |-> "tuple"]
        ELSE IF hits # {}
        THEN [ok |-> TRUE, exc |-> "",
              val |-> <<ch[CHOOSE i \in hits : \A j \in hits : i <= j]>>, shape |-> "node"]
        ELSE [ok |-> FALSE, exc |-> "AttributeError", val |-> <<>>, shape |-> ""]

\* Node.get(label): the first child with that label (shape "node", val the
\* one node), else the tuple of the children collected in r (shape "tuple"),
\* else AttributeError.  A child with the label ends the loop wherever it
\* stands, so r matters only when there is none.
Node_get(heap, self, label) ==
    LET ch == heap[self].children
        hits == {i \in 1..Len(ch) : heap[ch[i]].label = label}
        Heads(c) == LabelHeads(heap, c, label)
        r == SelectSeq(ch, Heads)
    IN  IF hits # {}
        THEN [ok |-> TRUE, exc |-> "",
              val |-> <<ch[CHOOSE i \in hits : \A j \in hits : i <= j]>>, shape |-> "node"]
        ELSE IF r # <<>> THEN [ok |-> TRUE, exc |-> "", val |-> r, shape |-> "tuple"]
        ELSE [ok |-> FALSE, exc |-> "AttributeError", val |-> <<>>, shape |-> ""]

(***************************************************************************)
(* Tracers and TraceContext                                                *)
(*                                                                         *)
(* A tracer is a record: kind ("base", "time" or "bkz"), verbosity,        *)
(* instance (the values its M.get_r(0, 0) and M.get_current_slope return), *)
(* trace (the root Node) and current (the cursor, 0 for None).  A call on  *)
(* a tracer returns the heap of Nodes and the tracer afterwards, whether   *)
(* it returned (ok) and the exception raised otherwise (exc); what a call  *)
(* stored before it raised is kept.  clk holds the readings the call gets  *)
(* from time.clock() (cpu) and time.time() (wall).                         *)
(***************************************************************************)
Done(heap, tr) == [ok |-> TRUE, exc |-> "", heap |-> heap, tr |-> tr]
Failed(heap, tr, exc) == [ok |-> FALSE, exc |-> exc, heap |-> heap, tr |-> tr]

\* x - y
PySub(x, y) ==
    IF x.kind = "num" /\ y.kind = "num" THEN [ok |-> TRUE, exc |-> "", val |-> PyNum(x.n - y.n)]
    ELSE [ok |-> FALSE, exc |-> "TypeError", val |-> PyNone]

\* Stores into a data dictionary, one after the other: each takes and yields
\* [ok, exc, d], d being the dictionary as the stores so far left it; after a
\* store that raised (ok = FALSE) the later ones are not made.
Stored(d) == [d |-> d, ok |-> TRUE, exc |-> ""]
Broke(d, exc) == [d |-> d, ok |-> FALSE, exc |-> exc]

\* d[k] = d.get(k, 0) + v
GetAdd(st, k, v) ==
    IF ~st.ok THEN st
    ELSE LET a == PyAdd(DictGet(st.d, k, PyNum(0)), v)
         IN  IF a.ok THEN Stored(DictSet(st.d, k, a.val)) ELSE Broke(st.d, a.exc)
\* d[k] = d.get(k, 0) - v
GetSub(st, k, v) ==
    IF ~st.ok THEN st
    ELSE LET a == PySub(DictGet(st.d, k, PyNum(0)), v)
         IN  IF a.ok THEN Stored(DictSet(st.d, k, a.val)) ELSE Broke(st.d, a.exc)
\* d[k] += v
AugAdd(st, k, v) ==
    IF ~st.ok THEN st
    ELSE IF k \notin DictKeys(st.d) THEN Broke(st.d, "KeyError")
    ELSE LET a == PyAdd(DictItem(st.d, k), v)
         IN  IF a.ok THEN Stored(DictSet(st.d, k, a.val)) ELSE Broke(st.d, a.exc)
\* d[k] = v + d.get(k, None)
AddGet(st, k, v) ==
    IF ~st.ok THEN st
    ELSE LET a == PyAdd(v, DictGet(st.d, k, PyNone))
         IN  IF a.ok THEN Stored(DictSet(st.d, k, a.val)) ELSE Broke(st.d, a.exc)

\* Tracer.__init__
Tracer_init(instance, verbosity) ==
    [kind |-> "base", instance |-> instance, verbosity |-> verbosity,
     trace |-> 0, current |-> 0]
\* Tracer.enter and Tracer.exit: pass
Tracer_enter(heap, tr, label, kwds) == Done(heap, tr)
Tracer_exit(heap, tr, kwds) == Done(heap, tr)

\* TimeTreeTracer.__init__
TimeTreeTracer_init(heap, instance, verbosity) ==
    LET n == Node_init(heap, LStr("root"), 0, <<>>)
    IN  Done(n.heap, [kind |-> "time", instance |-> instance, verbosity |-> verbosity,
                      trace |-> n.val, current |-> n.val])

\* The end of a tracer method that stored into node.data: the stores made
\* are kept; if none raised the cursor moves to next, else it stays.
Settle(heap, tr, node, st, next) ==
    IF st.ok THEN Done([heap EXCEPT ![node].data = st.d], [tr EXCEPT !.current = next])
    ELSE Failed([heap EXCEPT ![node].data = st.d], tr, st.exc)

\* An enter that starts the accumulators afresh on every visit.
TimeTreeTracer_enter_reset(heap, tr, label, kwds, clk) ==
    LET c == Node_child(heap, tr.current, label)
        d == DictSet(DictSet(c.heap[c.val].data, "cputime", PyNum(-clk.cpu)),
                     "walltime", PyNum(-clk.wall))
    IN  Done([c.heap EXCEPT ![c.val].data = d], [tr EXCEPT !.current = c.val])

\* TimeTreeTracer.enter once node = self.current.child(label) is there: c is
\* what child returned
TimeTreeTracer_enter_node(c, tr, clk) ==
    Settle(c.heap, tr, c.val,
           GetSub(GetSub(Stored(c.heap[c.val].data), "cputime", PyNum(clk.cpu)),
                  "walltime", PyNum(clk.wall)),
           c.val)

\* TimeTreeTracer.enter
TimeTreeTracer_enter(heap, tr, label, kwds, clk) ==
    IF tr.current = 0 THEN Failed(heap, tr, "AttributeError")
    ELSE TimeTreeTracer_enter_node(Node_child(heap, tr.current, label), tr, clk)

\* TimeTreeTracer.exit; print(self.current) writes to stdout only
TimeTreeTracer_exit(heap, tr, kwds, clk) ==
    IF tr.current = 0 THEN Failed(heap, tr, "AttributeError")
    ELSE Settle(heap, tr, tr.current,
                GetAdd(GetAdd(Stored(heap[tr.current].data), "cputime", PyNum(clk.cpu)),
                       "walltime", PyNum(clk.wall)),
                heap[tr.current].parent)

\* BKZTreeTracer.reenter
BKZTreeTracer_reenter(heap, tr, kwds, clk) ==
    IF tr.current = 0 THEN Failed(heap, tr, "AttributeError")
    ELSE Settle(heap, tr, tr.current,
                GetAdd(GetAdd(Stored(heap[tr.current].data), "cputime",
                              PyStat(Statistic_init(-clk.cpu, "sum", FALSE))),
                       "walltime", PyStat(Statistic_init(-clk.wall, "sum", FALSE))),
                tr.current)

\* BKZTreeTracer.__init__
BKZTreeTracer_init(heap, instance, verbosity, root_label, start_clocks, clk) ==
    LET n == Node_init(heap, root_label, 0, <<>>)
        tr == [kind |-> "bkz", instance |-> instance, verbosity |-> verbosity,
               trace |-> n.val, current |-> n.val]
    IN  IF start_clocks THEN BKZTreeTracer_reenter(n.heap, tr, <<>>, clk) ELSE Done(n.heap, tr)

\* BKZTreeTracer.enter once self.current.child(label) has returned c
BKZTreeTracer_enter_node(c, tr, clk) ==
    BKZTreeTracer_reenter(c.heap, [tr EXCEPT !.current = c.val], <<>>, clk)

\* BKZTreeTracer.enter
BKZTreeTracer_enter(heap, tr, label, kwds, clk) ==
    IF tr.current = 0 THEN Failed(heap, tr, "AttributeError")
    ELSE BKZTreeTracer_enter_node(Node_child(heap, tr.current, label), tr, clk)

\* bool(x) of a number
Truthy(x) == x.n # 0

\* label[0] == "tour": the first component of a tuple label; the first
\* character of a (non-empty) string label is never "tour".
LabelIsTour(label) == label.tuple /\ label.s = "tour"

\* BKZTreeTracer.exit.  kwds maps "full" to a bool, "enum_obj" to the number
\* its get_nodes() returns and "probability" to a number.  The report printed
\* for a tour when verbosity is set writes to stdout only.
BKZTreeTracer_exit(heap, tr, kwds, clk) ==
    IF tr.current = 0 THEN Failed(heap, tr, "AttributeError")
    ELSE LET label == heap[tr.current].label
             Times(st) == AugAdd(AugAdd(st, "cputime", PyNum(clk.cpu)),
                                 "walltime", PyNum(clk.wall))
             Percent(st) ==
                 IF ~st.ok \/ "probability" \notin DictKeys(kwds) THEN st
                 ELSE AddGet(st, "%",
                             PyStat(Statistic_init(DictItem(kwds, "probability").n, "avg", TRUE)))
             Enum(st) ==
                 IF ~st.ok \/ label # LStr("enumeration") THEN st
                 ELSE IF ~Truthy(DictGet(kwds, "full", PyNum(1))) THEN st
                 ELSE IF "enum_obj" \notin DictKeys(kwds) THEN Broke(st.d, "KeyError")
                 ELSE Percent(AddGet(st, "#enum",
                          PyStat(Statistic_init(DictItem(kwds, "enum_obj").n, "sum", TRUE))))
             Tour(st) ==
                 IF ~st.ok \/ ~LabelIsTour(label) THEN st
                 ELSE Stored(DictSet(DictSet(st.d, "r_0",
                                 PyStat(Statistic_init(tr.instance.r_0, "min", TRUE))),
                             "/", PyStat(Statistic_init(tr.instance.slope, "min", TRUE))))
         IN  Settle(heap, tr, tr.current, Tour(Enum(Times(Stored(heap[tr.current].data)))),
                    heap[tr.current].parent)

\* report[key] = v
ReportSet(st, key, v) ==
    IF ~st.ok THEN st ELSE Stored(DictSet(st.d, key, v))

\* try: report[key] = node.find(label, True)["cputime"]; except KeyError: pass
\* where f is what find yielded
ReportFound(st, heap, key, f) ==
    IF ~st.ok THEN st
    ELSE IF ~f.ok /\ f.exc = "KeyError" THEN st
    ELSE IF ~f.ok THEN Broke(st.d, f.exc)
    ELSE IF "cputime" \notin DictKeys(heap[f.val].data) THEN st
    ELSE Stored(DictSet(st.d, key, DictItem(heap[f.val].data, "cputime")))

\* report[key] = node.sum(...), r being what sum yielded
ReportSum(st, key, r) ==
    IF ~st.ok THEN st
    ELSE IF ~r.ok THEN Broke(st.d, r.exc)
    ELSE Stored(DictSet(st.d, key, r.val))

\* report[key] = node[tag]
ReportOwn(st, heap, node, key, tag) ==
    IF ~st.ok THEN st
    ELSE IF tag \notin DictKeys(heap[node].data) THEN Broke(st.d, "KeyError")
    ELSE Stored(DictSet(st.d, key, DictItem(heap[node].data, tag)))

\* A faulty report whose lll field is the time of the first node labelled
\* "lll" only.
TourReport_firstlll(heap, node) ==
    ReportSum(
     ReportOwn(ReportOwn(
      ReportFound(ReportFound(
       ReportFound(
        ReportFound(ReportFound(
         ReportOwn(ReportOwn(
          ReportSet(Stored(<<>>), "i", PyNum(heap[node].label.i)),
          heap, node, "cputime", "cputime"), heap, node, "walltime", "walltime"),
         heap, "preproc", Node_find(heap, node, LStr("preprocessing"), TRUE)),
         heap, "svp", Node_find(heap, node, LStr("enumeration"), TRUE)),
        heap, "lll", Node_find(heap, node, LStr("lll"), TRUE)),
       heap, "postproc", Node_find(heap, node, LStr("postprocessing"), TRUE)),
       heap, "pruner", Node_find(heap, node, LStr("pruner"), TRUE)),
      heap, node, "r_0", "r_0"), heap, node, "/", "/"),
     "#enum", Node_sum(heap, node, "#enum", TRUE, FALSE, LNone))

\* The report BKZTreeTracer.exit assembles for a tour node (an OrderedDict,
\* filled in this order): i, cputime, walltime, preproc, svp, lll, postproc,
\* pruner, r_0, /, #enum.
TourReport(heap, node) ==
    ReportSum(
     ReportOwn(ReportOwn(
      ReportFound(ReportFound(
       ReportSum(
        ReportFound(ReportFound(
         ReportOwn(ReportOwn(
          ReportSet(Stored(<<>>), "i", PyNum(heap[node].label.i)),
          heap, node, "cputime", "cputime"), heap, node, "walltime", "walltime"),
         heap, "preproc", Node_find(heap, node, LStr("preprocessing"), TRUE)),
         heap, "svp", Node_find(heap, node, LStr("enumeration"), TRUE)),
        "lll", Node_sum(heap, node, "cputime", TRUE, FALSE, LStr("lll"))),
       heap, "postproc", Node_find(heap, node, LStr("postprocessing"), TRUE)),
       heap, "pruner", Node_find(heap, node, LStr("pruner"), TRUE)),
      heap, node, "r_0", "r_0"), heap, node, "/", "/"),
     "#enum", Node_sum(heap, node, "#enum", TRUE, FALSE, LNone))

\* What a call of exit prints, r being what the call yielded on heap and tr:
\* BKZTreeTracer.exit prints the report of a tour node when verbosity is set,
\* after its stores and before it moves the cursor; the report only reads the
\* tree, so it is taken from the heap the call left.  An exit that raised in
\* its stores has printed nothing.
ExitPrinted(heap, tr, r) ==
    IF tr.kind = "bkz" /\ r.ok /\ tr.current # 0 /\ tr.verbosity # 0
          /\ LabelIsTour(heap[tr.current].label)
    THEN <<[node |-> tr.current, report |-> TourReport(r.heap, tr.current)]>>
    ELSE <<>>

\* tracer.enter(label, kwds) and tracer.exit(kwds) on a tracer of any class
Enter(heap, tr, label, kwds, clk) ==
    IF tr.kind = "time" THEN TimeTreeTracer_enter(heap, tr, label, kwds, clk)
    ELSE IF tr.kind = "bkz" THEN BKZTreeTracer_enter(heap, tr, label, kwds, clk)
    ELSE Tracer_enter(heap, tr, label, kwds)
Exit(heap, tr, kwds, clk) ==
    IF tr.kind = "time" THEN TimeTreeTracer_exit(heap, tr, kwds, clk)
    ELSE IF tr.kind = "bkz" THEN BKZTreeTracer_exit(heap, tr, kwds, clk)
    ELSE Tracer_exit(heap, tr, kwds)

\* TraceContext.__init__: what = args if len(args) > 1 else args[0]
TraceContext_init(args, kwds) ==
    [kwds |-> kwds,
     what |-> IF Len(args) > 1 THEN LTup(args[1], args[2]) ELSE LStr(args[1])]

\* TraceContext.__enter__ and __exit__ yield what the tracer's method yielded
\* (r) and the calls they made on the tracer; both return None, so an
\* exception passed to __exit__ is not suppressed.
Called(r, call) == [r |-> r, made |-> <<[call EXCEPT !.ok = r.ok]>>]

TraceContext__enter__(heap, tr, self, clk) ==
    Called(Enter(heap, tr, self.what, self.kwds, clk),
           [ok |-> TRUE, kwds |-> self.kwds, what |-> self.what, op |-> "enter"])

\* A __exit__ that leaves the tracer alone when the block raised.
TraceContext__exit__quiet(heap, tr, self, exception_type, clk) ==
    IF exception_type # "" THEN [r |-> Done(heap, tr), made |-> <<>>]
    ELSE Called(Exit(heap, tr, self.kwds, clk),
                [ok |-> TRUE, kwds |-> self.kwds, op |-> "exit"])

TraceContext__exit__(heap, tr, self, exception_type, clk) ==
    Called(Exit(heap, tr, self.kwds, clk), [ok |-> TRUE, kwds |-> self.kwds, op |-> "exit"])

(***************************************************************************)
(* One Statistic, built by the constructor and mutated by add              *)
(***************************************************************************)
NoHist == [seed |-> 0, counted |-> FALSE, added |-> <<>>]
NoRes == [op |-> "none"]

NoPending == [exc |-> "", escaped |-> FALSE]
NoTracer == [kind |-> "none"]
NoTrace ==
    /\ tracer = NoTracer
    /\ clock = [cpu |-> 0, wall |-> 0]
    /\ scopes = <<>>
    /\ pending = NoPending
    /\ calls = <<>>
    /\ spent = <<>>
    /\ out = <<>>

NoNodes ==
    /\ nodes = <<>>
    /\ nres = NoRes
    /\ cret = {}
    /\ misuse = <<>>
    /\ NoTrace

StatInit ==
    /\ sheap = <<>>
    /\ hist = NoHist
    /\ sres = NoRes
    /\ NoNodes

\* v = Statistic(value, repr, count)
StatNew ==
    \E value \in Vals, repr \in Modes, count \in BOOLEAN :
        /\ sheap = <<>>
        /\ sheap' = <<Statistic_init(value, repr, count)>>
        /\ hist' = [seed |-> value, counted |-> count, added |-> <<>>]
        /\ UNCHANGED <<sres, nodeVars, traceVars>>

\* v.add(value)
StatAdd ==
    \E value \in Vals :
        /\ sheap # <<>>
        /\ Len(hist.added) < MaxAdds
        /\ sheap' = [sheap EXCEPT ![1] = Statistic_add(@, value)]
        /\ hist' = [hist EXCEPT !.added = Append(@, value)]
        /\ UNCHANGED <<sres, nodeVars, traceVars>>

StatNext == StatNew \/ StatAdd

SpecStat == StatInit /\ [][StatNext]_vars

(***************************************************************************)
(* C3                                                                      *)
(***************************************************************************)
Inserted == <<hist.seed>> \o hist.added

Perms(n) == {p \in [1..n -> 1..n] : \A i, j \in 1..n : p[i] = p[j] => i = j}

\* C3: after new(v0, mode, counting) and add(v1..vn), min <= every inserted
\* value <= max, sum and sumSquares are the totals of the values and of their
\* squares, count is n+1 (n when the construction was non-counting), avg is
\* sum/count and variance is sumSquares/count - avg^2 (whenever count > 0),
\* and every permutation of v1..vn yields the same fields.
C3_StatisticSummary ==
    sheap # <<>> =>
        LET s == sheap[1]
            n == Len(hist.added)
            cnt == n + (IF hist.counted THEN 1 ELSE 0)
            mean == Rat(SeqSum(Inserted), cnt)
        IN  /\ \A i \in 1..Len(Inserted) : s.min <= Inserted[i] /\ Inserted[i] <= s.max
            /\ s.sum = SeqSum(Inserted)
            /\ s.sqr = SeqSumSq(Inserted)
            /\ s.ctr = cnt
            /\ cnt > 0 =>
                /\ Statistic_avg(s) = Return(mean)
                /\ Statistic_variance(s)
                     = Return(RatSub(Rat(SeqSumSq(Inserted), cnt), RatMul(mean, mean)))
            /\ \A p \in Perms(n) :
                 AddAll(Statistic_init(hist.seed, s.repr, hist.counted),
                        [i \in 1..n |-> hist.added[p[i]]]) = s

\* Two different values have been added to a counting Statistic.
C3_Witness ==
    /\ sheap # <<>>
    /\ hist.counted
    /\ Len(hist.added) = 2
    /\ hist.added[1] # hist.added[2]
    /\ sheap[1].min < sheap[1].max

(***************************************************************************)
(* Statistic arithmetic on operands a, b, c = sheap[1], sheap[2], sheap[3] *)
(***************************************************************************)
PoolOf(repr) ==
    {AddAll(Statistic_init(v, repr, c), s) :
        v \in PoolVals, c \in BOOLEAN,
        s \in UNION {[1..k -> PoolVals] : k \in 0..PoolAdds}}

NextMode(repr) ==
    CASE repr = "min" -> "max"
      [] repr = "max" -> "avg"
      [] repr = "avg" -> "sum"
      [] repr = "sum" -> "variance"
      [] OTHER -> "min"

Outcome(r) == [ok |-> r.ok, exc |-> r.exc, val |-> r.val]

CombInit ==
    /\ \E ma \in Modes :
         \E a \in PoolOf(ma), b \in PoolOf(ma) \cup PoolOf(NextMode(ma)), c \in PoolOf(ma) :
            sheap = <<a, b, c>>
    /\ hist = NoHist
    /\ sres = NoRes
    /\ NoNodes

\* a + b
CombCombine ==
    /\ sres = NoRes
    /\ LET r == Statistic__add__(sheap, 1, PyRef(2))
       IN  /\ sheap' = r.heap
           /\ sres' = [op |-> "combine", pre |-> sheap, outs |-> <<Outcome(r)>>]
    /\ UNCHANGED <<hist, nodeVars, traceVars>>

\* a + b; b + a
CombCommute ==
    /\ sres = NoRes
    /\ LET r1 == Statistic__add__(sheap, 1, PyRef(2))
           r2 == Statistic__add__(r1.heap, 2, PyRef(1))
       IN  /\ sheap' = r2.heap
           /\ sres' = [op |-> "commute", pre |-> sheap,
                       outs |-> <<Outcome(r1), Outcome(r2)>>]
    /\ UNCHANGED <<hist, nodeVars, traceVars>>

\* (a + b) + c; a + (b + c)
CombAssoc ==
    /\ sres = NoRes
    /\ LET ab == Statistic__add__(sheap, 1, PyRef(2))
           ab_c == IF ab.ok THEN Statistic__add__(ab.heap, ab.val, PyRef(3)) ELSE ab
           bc == Statistic__add__(ab_c.heap, 2, PyRef(3))
           a_bc == IF bc.ok THEN Statistic__add__(bc.heap, 1, PyRef(bc.val)) ELSE bc
       IN  /\ sheap' = a_bc.heap
           /\ sres' = [op |-> "assoc", pre |-> sheap,
                       outs |-> <<Outcome(ab_c), Outcome(a_bc)>>]
    /\ UNCHANGED <<hist, nodeVars, traceVars>>

\* a + value; a + Statistic(value, a's mode); a.add(value)
CombInsert ==
    /\ sres = NoRes
    /\ \E value \in PoolVals :
        LET plus == Statistic__add__(sheap, 1, PyNum(value))
            fresh == Append(plus.heap, Statistic_init(value, sheap[1].repr, TRUE))
            comb == Statistic__add__(fresh, 1, PyRef(Len(fresh)))
        IN  /\ sheap' = [comb.heap EXCEPT ![1] = Statistic_add(@, value)]
            /\ sres' = [op |-> "insert", pre |-> sheap,
                        outs |-> <<Outcome(plus), Outcome(comb)>>]
    /\ UNCHANGED <<hist, nodeVars, traceVars>>

CombNext == CombCombine \/ CombCommute \/ CombAssoc \/ CombInsert

SpecCombine == CombInit /\ [][CombNext]_vars

(***************************************************************************)
(* C4                                                                      *)
(***************************************************************************)
\* C4: combine of two Statistics of different modes raises ValueError and
\* produces no object; of equal modes it returns a new Statistic holding the
\* min of the mins, the max of the maxes, the sums of sum, sumSquares and
\* count, and the operands' mode; neither operand is modified.
C4_Combine ==
    sres.op = "combine" =>
        LET a == sres.pre[1]
            b == sres.pre[2]
            r == sres.outs[1]
        IN  /\ SubSeq(sheap, 1, Len(sres.pre)) = sres.pre
            /\ a.repr # b.repr =>
                 /\ ~r.ok
                 /\ r.exc = "ValueError"
                 /\ sheap = sres.pre
            /\ a.repr = b.repr =>
                 /\ r.ok
                 /\ r.val = Len(sres.pre) + 1
                 /\ Len(sheap) = Len(sres.pre) + 1
                 /\ sheap[r.val].min = Min2(a.min, b.min)
                 /\ sheap[r.val].max = Max2(a.max, b.max)
                 /\ sheap[r.val].sum = a.sum + b.sum
                 /\ sheap[r.val].sqr = a.sqr + b.sqr
                 /\ sheap[r.val].ctr = a.ctr + b.ctr
                 /\ sheap[r.val].repr = a.repr

\* Two Statistics of one mode and different extrema have been combined.
C4_Witness ==
    /\ sres.op = "combine"
    /\ sres.outs[1].ok
    /\ sres.pre[1].min < sres.pre[2].min
    /\ sres.pre[1].max < sres.pre[2].max
    /\ sres.pre[2].ctr > 0

(***************************************************************************)
(* C5                                                                      *)
(***************************************************************************)
\* C5: for same-mode Statistics (a+b)+c and a+(b+c) have equal fields, a+b and
\* b+a have equal fields, and a + v, a + new(v, a's mode) and a.add(v) have
\* equal fields.
C5_CombineAlgebra ==
    /\ sres.op = "assoc" =>
         /\ sres.outs[1].ok = sres.outs[2].ok
         /\ sres.outs[1].ok => sheap[sres.outs[1].val] = sheap[sres.outs[2].val]
    /\ sres.op = "commute" =>
         /\ sres.outs[1].ok = sres.outs[2].ok
         /\ sres.outs[1].ok => sheap[sres.outs[1].val] = sheap[sres.outs[2].val]
    /\ sres.op = "insert" =>
         /\ sres.outs[1].ok /\ sres.outs[2].ok
         /\ sheap[sres.outs[1].val] = sheap[sres.outs[2].val]
         /\ sheap[1] = sheap[sres.outs[1].val]

\* Three same-mode Statistics with pairwise different sums have been combined
\* in both groupings.
C5_Witness ==
    /\ sres.op = "assoc"
    /\ sres.outs[1].ok
    /\ sres.pre[1].sum # sres.pre[2].sum
    /\ sres.pre[2].sum # sres.pre[3].sum
    /\ sres.pre[1].min # sres.pre[3].min

(***************************************************************************)
(* Nodes built and linked through the Node interface                       *)
(***************************************************************************)
NodeLabels == {LStr("a"), LStr("b")}

Ids == 1..Len(nodes)

Fits(heap) == Len(heap) <= MaxNodes

\* root = Node("a"); other = Node("b")
NodeInit ==
    /\ sheap = <<>>
    /\ hist = NoHist
    /\ sres = NoRes
    /\ nodes = Node_init(Node_init(<<>>, LStr("a"), 0, <<>>).heap, LStr("b"), 0, <<>>).heap
    /\ nres = NoRes
    /\ cret = {}
    /\ misuse = <<>>
    /\ NoTrace

\* How a call of add_child(child) on self leaves the shape Node.child keeps:
\* a child of self already carries the label, or child already hangs
\* somewhere or is self or above self.
AddChildMisuse(self, label, child) ==
    (IF \E i \in 1..Len(nodes[self].children) :
            nodes[nodes[self].children[i]].label = label
     THEN {"dup_label"} ELSE {})
    \cup (IF child # 0 /\ (nodes[child].parent # 0 \/ self \in Subtree(nodes, child))
          THEN {"relink"} ELSE {})

Misused(how) ==
    /\ how # {} => misuse = <<>>
    /\ misuse' = IF how = {} THEN misuse ELSE Append(misuse, how)

\* Node(label, parent) with a parent given
NodeNew ==
    \E label \in NodeLabels, parent \in Ids :
        LET r == Node_init(nodes, label, parent, <<>>)
        IN  /\ Fits(r.heap)
            /\ nodes' = r.heap
            /\ nres' = NoRes
            /\ Misused({"explicit_parent"})
            /\ UNCHANGED <<cret, statVars, traceVars>>

\* self.child(label)
NodeChild ==
    \E self \in Ids, label \in NodeLabels :
        LET r == Node_child(nodes, self, label)
        IN  /\ Fits(r.heap)
            /\ nodes' = r.heap
            /\ nres' = NoRes
            /\ UNCHANGED <<cret, misuse, statVars, traceVars>>

\* self.child(label), keeping what the first call returned and what every
\* later call with the same receiver and label returned
NodeChildWatched ==
    \E self \in Ids, label \in NodeLabels :
        LET r == Node_child(nodes, self, label)
            call == [self |-> self, label |-> label, ret |-> r.val]
        IN  /\ Fits(r.heap)
            /\ nodes' = r.heap
            /\ nres' = NoRes
            /\ cret' = IF cret = {} \/ \E e \in cret : e.self = self /\ e.label = label
                       THEN cret \cup {call} ELSE cret
            /\ UNCHANGED <<misuse, statVars, traceVars>>

\* self.add_child(Node(label))
NodeAddNew ==
    \E self \in Ids, label \in NodeLabels :
        LET n == Node_init(nodes, label, 0, <<>>)
            r == Node_add_child(n.heap, self, n.val)
        IN  /\ Fits(r.heap)
            /\ nodes' = r.heap
            /\ nres' = NoRes
            /\ Misused(AddChildMisuse(self, label, 0))
            /\ UNCHANGED <<cret, statVars, traceVars>>

\* self.add_child(child) for a node that exists
NodeAddChild ==
    \E self \in Ids, child \in Ids :
        LET r == Node_add_child(nodes, self, child)
        IN  /\ Fits(r.heap)
            /\ nodes' = r.heap
            /\ nres' = NoRes
            /\ Misused(AddChildMisuse(self, nodes[child].label, child))
            /\ UNCHANGED <<cret, statVars, traceVars>>

\* self.merge(node), for a node whose tree is finite and apart from self's
\* (otherwise the recursion of merge runs over nodes it is itself adding).
NodeMerge ==
    \E self \in Ids, node \in Ids :
        /\ \A n \in Subtree(nodes, node) : n \notin Descendants(nodes, n)
        /\ Subtree(nodes, self) \cap Subtree(nodes, node) = {}
        /\ LET r == Node_merge(nodes, self, node)
           IN  /\ Fits(r.heap)
               /\ nodes' = r.heap
               /\ nres' = NoRes
        /\ UNCHANGED <<cret, misuse, statVars, traceVars>>

NodeNext == NodeNew \/ NodeChild \/ NodeAddNew \/ NodeAddChild \/ NodeMerge

SpecNode == NodeInit /\ [][NodeNext]_vars

ChildNext == NodeNew \/ NodeChildWatched \/ NodeAddNew \/ NodeAddChild \/ NodeMerge

SpecChild == NodeInit /\ [][ChildNext]_vars

(***************************************************************************)
(* C6                                                                      *)
(***************************************************************************)
IsPrefix(s, t) == Len(s) <= Len(t) /\ SubSeq(t, 1, Len(s)) = s

HasChildLabelled(heap, self, label) ==
    \E i \in 1..Len(heap[self].children) : heap[heap[self].children[i]].label = label

\* C6: all calls of child with equal labels on one parent return the same
\* node, whatever happens in between; a call creates a node only when no child
\* carries the label, and then exactly one, with empty data and the receiver
\* as parent, appended to the children; and no step ever moves or removes an
\* existing entry of a children list.
C6Step ==
    /\ \A e1, e2 \in cret' : e1.ret = e2.ret
    /\ \A n \in 1..Len(nodes) :
         /\ n <= Len(nodes')
         /\ IsPrefix(nodes[n].children, nodes'[n].children)
    /\ (cret = {} /\ cret' # {}) =>
         \A e \in cret' :
            /\ e.ret \in Range(nodes'[e.self].children)
            /\ nodes'[e.ret].label = e.label
            /\ HasChildLabelled(nodes, e.self, e.label) =>
                 /\ nodes' = nodes
            /\ ~HasChildLabelled(nodes, e.self, e.label) =>
                 /\ Len(nodes') = Len(nodes) + 1
                 /\ e.ret = Len(nodes')
                 /\ nodes'[e.ret] = [label |-> e.label, parent |-> e.self,
                                     data |-> <<>>, children |-> <<>>]
                 /\ nodes'[e.self].children = Append(nodes[e.self].children, e.ret)
                 /\ \A n \in 1..Len(nodes) :
                      n # e.self => nodes'[n] = nodes[n]
C6_ChildIdempotent == [][C6Step]_vars

\* child created a node, a second child with the same label was then added
\* past it, and the tree was merged into; child still finds the first.
C6_Witness ==
    \E e \in cret :
        \E i, j \in 1..Len(nodes[e.self].children) :
            /\ i < j
            /\ nodes[e.self].children[i] = e.ret
            /\ e.ret > 2
            /\ nodes[nodes[e.self].children[j]].label = e.label
            /\ nodes[e.self].children[j] # e.ret
            /\ nodes[e.ret].children # <<>>

(***************************************************************************)
(* C7                                                                      *)
(***************************************************************************)
SiblingsUnique(heap) ==
    \A n \in 1..Len(heap) :
        \A i, j \in 1..Len(heap[n].children) :
            heap[heap[n].children[i]].label = heap[heap[n].children[j]].label => i = j

MisuseKinds == UNION Range(misuse)

\* C7 as claimed: after any sequence of child, add_child and merge no node has
\* two children with equal labels.
C7_SiblingLabelsUnique == SiblingsUnique(nodes)

\* C7 as amended: no node has two children with equal labels as long as
\* add_child was never called with a child whose label a child of the
\* receiver already carried.
C7_SiblingLabelsUniqueUnlessAdded ==
    "dup_label" \notin MisuseKinds => SiblingsUnique(nodes)

\* A node has two children, one of them with a child of its own, and no call
\* so far has linked a node past Node.child.
C7_Witness ==
    /\ misuse = <<>>
    /\ Len(nodes) = MaxNodes
    /\ \E n \in Ids :
         /\ Len(nodes[n].children) = 2
         /\ nodes[nodes[n].children[1]].children # <<>>

(***************************************************************************)
(* C8                                                                      *)
(***************************************************************************)
Roots(heap) == {n \in 1..Len(heap) : heap[n].parent = 0}

Forest(heap) ==
    LET N == 1..Len(heap)
    IN  /\ \A p \in N : \A i, j \in 1..Len(heap[p].children) :
             heap[p].children[i] = heap[p].children[j] => i = j
        /\ \A n, p \in N : heap[n].parent = p <=> n \in Range(heap[p].children)
        /\ \A n \in N : n \notin Descendants(heap, n)
        /\ \A n \in N : Cardinality({r \in Roots(heap) : n \in Subtree(heap, r)}) = 1
        /\ \A n \in N :
             Node_level(heap, n) =
                IF heap[n].parent = 0 THEN 0 ELSE Node_level(heap, heap[n].parent) + 1

\* C8 as claimed: after any sequence of node constructions, child, add_child
\* and merge the nodes form trees: every node is reachable from exactly one
\* root, in no two children lists and not twice in one, never its own
\* ancestor, and n.parent is p exactly when n is in p.children.
C8_Forest == Forest(nodes)

\* C8 as amended: the same, as long as no node was constructed with a parent
\* argument and add_child was only called with a child that had no parent
\* and was neither the receiver nor above it.
C8_ForestUnlessRelinked ==
    ("explicit_parent" \notin MisuseKinds /\ "relink" \notin MisuseKinds)
        => Forest(nodes)

\* One tree of four nodes, three levels deep, put together by child and by
\* add_child of a separate root, with two equal labels side by side.
C8_Witness ==
    /\ MisuseKinds = {"dup_label"}
    /\ Cardinality(Roots(nodes)) = 1
    /\ \E n \in Ids : Node_level(nodes, n) = 2

(***************************************************************************)
(* Trees with data, built below the two roots by child and data[tag] = v   *)
(***************************************************************************)
Tags == {"t", "u"}

\* The size of what has been built: nodes below the roots plus data items.
RECURSIVE DataItems(_, _)
DataItems(heap, n) == IF n = 0 THEN 0 ELSE Len(heap[n].data) + DataItems(heap, n - 1)
BuiltSize(heap) == (Len(heap) - 2) + DataItems(heap, Len(heap))

\* self.child(label) creating a node, for self in the trees of the given roots
BuildChild(roots, size) ==
    \E self \in Reach(nodes, roots), label \in NodeLabels :
        LET r == Node_child(nodes, self, label)
        IN  /\ nres = NoRes
            /\ r.heap # nodes
            /\ BuiltSize(r.heap) <= size
            /\ nodes' = r.heap
            /\ UNCHANGED <<nres, cret, misuse, statVars, traceVars>>

\* node.data[tag] = value for a tag the node does not hold yet
BuildSetData(roots, size, values) ==
    \E n \in Reach(nodes, roots), tag \in Tags, value \in values :
        /\ nres = NoRes
        /\ tag \notin DictKeys(nodes[n].data)
        /\ nodes' = [nodes EXCEPT ![n].data = DictSet(@, tag, value)]
        /\ BuiltSize(nodes') <= size
        /\ UNCHANGED <<nres, cret, misuse, statVars, traceVars>>

(***************************************************************************)
(* A.merge(B) for the trees A = nodes[1] and B = nodes[2]                  *)
(***************************************************************************)
MergeVals ==
    {PyNum(1), PyStat(Statistic_init(2, "sum", TRUE)), PyStat(Statistic_init(-1, "avg", TRUE))}

MergeChild == BuildChild({1, 2}, MergeSize)
MergeSetData == BuildSetData({1, 2}, MergeSize, MergeVals)

\* A.merge(B)
MergeTrees ==
    /\ nres = NoRes
    /\ LET r == Node_merge(nodes, 1, 2)
       IN  /\ nodes' = r.heap
           /\ nres' = [ok |-> r.ok, exc |-> r.exc, op |-> "merge", pre |-> nodes]
    /\ UNCHANGED <<cret, misuse, statVars, traceVars>>

MergeNext == MergeChild \/ MergeSetData \/ MergeTrees

SpecMerge == NodeInit /\ [][MergeNext]_vars

(***************************************************************************)
(* C9                                                                      *)
(***************************************************************************)
\* The labels on the way from below root down to n.
RECURSIVE PathTo(_, _, _)
PathTo(heap, n, root) ==
    IF n = root THEN <<>> ELSE Append(PathTo(heap, heap[n].parent, root), heap[n].label)

\* The node reached from n along the labels of path, 0 when there is none.
RECURSIVE NodeAt(_, _, _)
NodeAt(heap, n, path) ==
    IF path = <<>> THEN n
    ELSE LET hits == {c \in Range(heap[n].children) : heap[c].label = Head(path)}
         IN  IF hits = {} THEN 0 ELSE NodeAt(heap, CHOOSE c \in hits : TRUE, Tail(path))

\* The sum of two values of one kind, an absent value (None) counting as zero.
ExpectedSum(x, y) ==
    IF x.kind = "none" THEN y
    ELSE IF y.kind = "none" THEN x
    ELSE IF x.kind = "num" THEN PyNum(x.n + y.n)
    ELSE PyStat([repr |-> x.s.repr, min |-> Min2(x.s.min, y.s.min),
                 max |-> Max2(x.s.max, y.s.max), sum |-> x.s.sum + y.s.sum,
                 sqr |-> x.s.sqr + y.s.sqr, ctr |-> x.s.ctr + y.s.ctr])

\* C9: after a merge of B into A that returned, every node of B has a node of
\* A at the same label path below the roots (the one A had, else a new one), in
\* which every tag of either node holds the sum of the two values before the
\* merge, absent counting as zero (for values of one kind: two numbers or two
\* Statistics); A's other nodes and tags are as before, no node of A is
\* removed or relabelled, and B is as before.
C9_Merge ==
    (nres.op = "merge" /\ nres.ok) =>
        LET pre == nres.pre
            InB == Subtree(pre, 2)
            Old(b) == NodeAt(pre, 1, PathTo(pre, b, 2))
            New(b) == NodeAt(nodes, 1, PathTo(pre, b, 2))
            Before(n, tag) == IF n = 0 THEN PyNone ELSE DictGet(pre[n].data, tag, PyNone)
        IN  /\ \A b \in InB :
                 /\ New(b) # 0
                 /\ Old(b) # 0 => New(b) = Old(b)
                 /\ Old(b) = 0 => New(b) > Len(pre)
                 /\ DictKeys(nodes[New(b)].data)
                      = DictKeys(pre[b].data) \cup
                        (IF Old(b) = 0 THEN {} ELSE DictKeys(pre[Old(b)].data))
                 /\ \A tag \in DictKeys(nodes[New(b)].data) :
                      LET x == Before(Old(b), tag)
                          y == Before(b, tag)
                      IN  (x.kind = "none" \/ y.kind = "none" \/ x.kind = y.kind)
                            => DictItem(nodes[New(b)].data, tag) = ExpectedSum(x, y)
            /\ \A n \in 1..Len(pre) :
                 /\ n <= Len(nodes)
                 /\ nodes[n].label = pre[n].label
                 /\ nodes[n].parent = pre[n].parent
                 /\ IsPrefix(pre[n].children, nodes[n].children)
                 /\ (\A b \in InB : Old(b) # n) => nodes[n].data = pre[n].data
                 /\ n \in InB => nodes[n] = pre[n]
            /\ Len(nodes) - Len(pre) = Cardinality({b \in InB : Old(b) = 0})

\* A merge returned that added a number to a number in a node below the roots
\* that both trees had.
C9_Witness ==
    /\ nres.op = "merge"
    /\ nres.ok
    /\ \E b \in Subtree(nres.pre, 2) \ {2} :
         LET a == NodeAt(nres.pre, 1, PathTo(nres.pre, b, 2))
         IN  /\ a # 0
             /\ \E tag \in DictKeys(nres.pre[a].data) \cap DictKeys(nres.pre[b].data) :
                  /\ DictItem(nres.pre[a].data, tag).kind = "num"
                  /\ DictItem(nodes[a].data, tag) = PyNum(2)

(***************************************************************************)
(* Queries on one tree with data, built below nodes[1]                     *)
(***************************************************************************)
QueryVals == {PyNum(1), PyNum(-2), PyStat(Statistic_init(2, "sum", TRUE))}

QueryChild == BuildChild({1}, QuerySize)
QuerySetData == BuildSetData({1}, QuerySize, QueryVals)

\* self.sum(tag, include_self, raise_keyerror, label)
QuerySum ==
    \E self \in Subtree(nodes, 1), tag \in Tags, include_self \in BOOLEAN,
       raise_keyerror \in BOOLEAN, label \in {LNone} \cup NodeLabels :
        /\ nres = NoRes
        /\ LET r == Node_sum(nodes, self, tag, include_self, raise_keyerror, label)
           IN  nres' = [ok |-> r.ok, exc |-> r.exc, val |-> r.val,
                        self |-> self, label |-> label, tag |-> tag,
                        include_self |-> include_self,
                        raise_keyerror |-> raise_keyerror, op |-> "sum"]
        /\ UNCHANGED <<nodes, cret, misuse, statVars, traceVars>>

QueryNext == QueryChild \/ QuerySetData \/ QuerySum

SpecQuery == NodeInit /\ [][QueryNext]_vars

(***************************************************************************)
(* C10                                                                     *)
(***************************************************************************)
\* A value as a number: a Statistic of mode "sum" stands for its sum.
NumOf(v) == IF v.kind = "stat" THEN v.s.sum ELSE v.n

RECURSIVE TotalOver(_, _)
TotalOver(S, tag) ==
    IF S = {} THEN 0
    ELSE LET n == CHOOSE m \in S : TRUE
         IN  NumOf(DictItem(nodes[n].data, tag)) + TotalOver(S \ {n}, tag)

\* The nodes a sum call includes: the receiver if include_self and every
\* descendant, each only if there is no label filter or it is the node's label.
Included(self, include_self, label) ==
    {n \in (IF include_self THEN {self} ELSE {}) \cup Descendants(nodes, self) :
        label = LNone \/ nodes[n].label = label}

\* C10: sum(tag, include_self, raise_keyerror, label) fails with KeyError when
\* raise_keyerror is set and an included node lacks the tag, and otherwise
\* returns the total of data[tag] over the included nodes that hold the tag;
\* excluded nodes add nothing and cause no failure.
C10_SumFold ==
    nres.op = "sum" =>
        LET Incl == Included(nres.self, nres.include_self, nres.label)
            Lacking == {n \in Incl : nres.tag \notin DictKeys(nodes[n].data)}
        IN  IF nres.raise_keyerror /\ Lacking # {}
            THEN ~nres.ok /\ nres.exc = "KeyError"
            ELSE nres.ok /\ NumOf(nres.val) = TotalOver(Incl \ Lacking, nres.tag)

\* A sum with a label filter that excluded the receiver and a child lacking
\* the tag and returned the value of a grandchild.
C10_Witness ==
    /\ nres.op = "sum"
    /\ nres.ok
    /\ nres.raise_keyerror
    /\ nres.label # LNone
    /\ nodes[nres.self].label # nres.label
    /\ \E c \in Range(nodes[nres.self].children) :
         /\ nres.tag \notin DictKeys(nodes[c].data)
         /\ nodes[c].label # nres.label
         /\ \E g \in Range(nodes[c].children) :
              /\ nodes[g].label = nres.label
              /\ nres.tag \in DictKeys(nodes[g].data)
              /\ NumOf(nres.val) = NumOf(DictItem(nodes[g].data, nres.tag))
              /\ NumOf(nres.val) # 0

(***************************************************************************)
(* A run of with-blocks, tracer.context(args, kwds), on one tracer      *)
(***************************************************************************)
TracerKinds == {"base", "time", "bkz"}
\* The calls tracer.context(args, kwds) of a run: a plain label, a tour, and an
\* enumeration with and without its enum_obj.
TraceWiths ==
    {[kwds |-> <<>>, args |-> <<"lll">>],
     [kwds |-> <<>>, args |-> <<"tour", 0>>],
     [kwds |-> <<[v |-> PyNum(2), k |-> "enum_obj"]>>, args |-> <<"enumeration">>],
     [kwds |-> <<>>, args |-> <<"enumeration">>]}
Instances == {[r_0 |-> 3, slope |-> -1]}
StartClock == [cpu |-> 1, wall |-> 3]

NoSpent == [cpu |-> 0, wall |-> 0, visits |-> 0]
\* spent, with an entry for every node of heap
SpentFor(heap) == [n \in 1..Len(heap) |-> IF n <= Len(spent) THEN spent[n] ELSE NoSpent]

Enters == {i \in 1..Len(calls) : calls[i].op = "enter"}
Exits == {i \in 1..Len(calls) : calls[i].op = "exit"}

\* The tracer after its construction
TraceInit ==
    /\ sheap = <<>>
    /\ hist = NoHist
    /\ sres = NoRes
    /\ nres = NoRes
    /\ cret = {}
    /\ misuse = <<>>
    /\ clock = StartClock
    /\ \E kind \in TracerKinds, instance \in Instances, start_clocks \in BOOLEAN :
         \E r \in {IF kind = "time" THEN TimeTreeTracer_init(<<>>, instance, 0)
                   ELSE IF kind = "bkz"
                   THEN BKZTreeTracer_init(<<>>, instance, 0, LStr("bkz"), start_clocks,
                                           StartClock)
                   ELSE Done(<<>>, Tracer_init(instance, 0))} :
             /\ nodes = r.heap
             /\ tracer = r.tr
             /\ spent = [n \in 1..Len(r.heap) |-> NoSpent]
    /\ scopes = <<>>
    /\ pending = NoPending
    /\ calls = <<>>
    /\ out = <<>>

\* Time passes: both clocks advance, the wall clock twice as fast.
TraceTick ==
    /\ clock.cpu < MaxClock
    /\ clock' = [cpu |-> clock.cpu + 1, wall |-> clock.wall + 2]
    /\ UNCHANGED <<tracer, scopes, pending, calls, spent, out, nodeVars, statVars>>

\* with tracer.context(args, kwds): the context's __enter__
TraceOpen ==
    \E with \in TraceWiths :
        \E self \in {TraceContext_init(with.args, with.kwds)} :
        \E e \in {TraceContext__enter__(nodes, tracer, self, clock)} :
            /\ pending.exc = ""
            /\ Cardinality(Enters) < MaxScopes
            /\ nodes' = e.r.heap
            /\ tracer' = e.r.tr
            /\ calls' = calls \o e.made
            /\ spent' = SpentFor(e.r.heap)
            /\ IF e.r.ok
               THEN /\ scopes' = Append(scopes, [node |-> e.r.tr.current, ctx |-> self,
                                                 t0 |-> clock])
                    /\ pending' = pending
               ELSE /\ scopes' = scopes
                    /\ pending' = [exc |-> e.r.exc, escaped |-> TRUE]
            /\ UNCHANGED <<clock, out, nres, cret, misuse, statVars>>

\* The body of the innermost open with-block raises.
TraceRaise ==
    /\ pending.exc = ""
    /\ scopes # <<>>
    /\ pending' = [exc |-> "Exception", escaped |-> FALSE]
    /\ UNCHANGED <<tracer, clock, scopes, calls, spent, out, nodeVars, statVars>>

\* The innermost with-block is left, by its end or by the pending exception:
\* the context's __exit__, whose value None lets the exception go on.
TraceClose ==
    /\ scopes # <<>>
    /\ \E top \in {scopes[Len(scopes)]} :
       \E x \in {TraceContext__exit__(nodes, tracer, top.ctx, pending.exc, clock)} :
           /\ nodes' = x.r.heap
           /\ tracer' = x.r.tr
           /\ calls' = calls \o x.made
           /\ scopes' = SubSeq(scopes, 1, Len(scopes) - 1)
           /\ pending' = IF ~x.r.ok THEN [exc |-> x.r.exc, escaped |-> TRUE]
                         ELSE IF pending.exc # "" THEN [pending EXCEPT !.escaped = TRUE]
                         ELSE pending
           /\ spent' = IF top.node = 0 THEN spent
                       ELSE [spent EXCEPT ![top.node] =
                                [cpu |-> @.cpu + (clock.cpu - top.t0.cpu),
                                 wall |-> @.wall + (clock.wall - top.t0.wall),
                                 visits |-> @.visits + 1]]
           /\ out' = out \o ExitPrinted(nodes, tracer, x.r)
    /\ UNCHANGED <<clock, nres, cret, misuse, statVars>>

\* An exception that has left a with-block is caught by the code around it.
TraceCatch ==
    /\ pending.exc # ""
    /\ pending.escaped
    /\ pending' = NoPending
    /\ UNCHANGED <<tracer, clock, scopes, calls, spent, out, nodeVars, statVars>>

TraceNext == TraceTick \/ TraceOpen \/ TraceRaise \/ TraceClose \/ TraceCatch

SpecTrace == TraceInit /\ [][TraceNext]_vars

(***************************************************************************)
(* C1                                                                      *)
(***************************************************************************)
\* The enter calls of a log that no later exit has answered, innermost last;
\* ok is FALSE when some exit has no enter to answer or another aux than the
\* enter it answers.
RECURSIVE Unanswered(_, _)
Unanswered(log, n) ==
    IF n = 0 THEN [ok |-> TRUE, open |-> <<>>]
    ELSE LET u == Unanswered(log, n - 1)
             c == log[n]
         IN  IF c.op = "enter"
             THEN [u EXCEPT !.open = Append(@, [kwds |-> c.kwds, what |-> c.what])]
             ELSE IF u.open = <<>> THEN [u EXCEPT !.ok = FALSE]
             ELSE [ok |-> u.ok /\ u.open[Len(u.open)].kwds = c.kwds,
                   open |-> SubSeq(u.open, 1, Len(u.open) - 1)]

OpenContexts == [i \in 1..Len(scopes) |-> scopes[i].ctx]

C1Paired ==
    /\ Unanswered(calls, Len(calls)).ok
    /\ Unanswered(calls, Len(calls)).open = OpenContexts
    /\ Cardinality(Enters) - Cardinality(Exits) = Len(scopes)
    /\ scopes = <<>> => Cardinality(Enters) = Cardinality(Exits)

C1Step ==
    /\ Len(scopes') < Len(scopes) =>
          /\ Len(calls') = Len(calls) + 1
          /\ calls'[Len(calls')].op = "exit"
          /\ calls'[Len(calls')].kwds = scopes[Len(scopes)].ctx.kwds
    /\ Len(scopes') > Len(scopes) =>
          /\ Len(calls') = Len(calls) + 1
          /\ calls'[Len(calls')].op = "enter"
          /\ calls'[Len(calls')].what = scopes'[Len(scopes')].ctx.what
          /\ calls'[Len(calls')].kwds = scopes'[Len(scopes')].ctx.kwds
    /\ Len(scopes') = Len(scopes) => calls' = calls
    /\ (pending'.escaped /\ ~pending.escaped) => Len(calls') = Len(calls) + 1

\* C1: in every run of nested with-blocks on a tracer, bodies that raise
\* included, the calls of tracer.enter and tracer.exit pair up: every exit
\* answers the innermost unanswered enter with the same kwds, the unanswered
\* enters are those of the open blocks, so the two counts are equal when no
\* block is open; and a block is never left, by its end or by an exception,
\* without exactly one call of exit made with its kwds in that step, before the
\* exception is in the enclosing code.
C1_ScopedTrace == [](C1Paired) /\ [][C1Step]_vars

\* Two nested blocks with different kwds have been left by an exception raised
\* in the inner one.
C1_Witness ==
    /\ scopes = <<>>
    /\ pending.exc = "Exception"
    /\ pending.escaped
    /\ Len(calls) = 4
    /\ calls[1].op = "enter"
    /\ calls[2].op = "enter"
    /\ calls[1].kwds # calls[2].kwds
    /\ calls[3].op = "exit"
    /\ calls[4].op = "exit"

(***************************************************************************)
(* C2                                                                      *)
(***************************************************************************)
OpenNodes == {scopes[i].node : i \in 1..Len(scopes)}

FindLabels == {LStr("a"), LStr("b"), LStr("c")}

\* self.child(label) creating a node.  Nodes are created level by level (a
\* node gets its children once its elder siblings and the nodes above have
\* theirs), which yields every tree with its children in every order, once.
FindChild ==
    \E self \in Subtree(nodes, 1), label \in FindLabels :
        \E r \in {Node_child(nodes, self, label)} :
            /\ nres = NoRes
            /\ r.heap # nodes
            /\ self >= nodes[Len(nodes)].parent
            /\ Len(r.heap) - 2 <= FindSize
            /\ nodes' = r.heap
            /\ UNCHANGED <<nres, cret, misuse, statVars, traceVars>>

\* nodes[1].find(label, raise_keyerror)
FindFind ==
    \E label \in FindLabels, raise_keyerror \in BOOLEAN :
        \E r \in {Node_find(nodes, 1, label, raise_keyerror)} :
            /\ nres = NoRes
            /\ nres' = [ok |-> r.ok, exc |-> r.exc, val |-> r.val,
                        self |-> 1, label |-> label,
                        raise_keyerror |-> raise_keyerror, op |-> "find"]
            /\ UNCHANGED <<nodes, cret, misuse, statVars, traceVars>>

\* nodes[1].report(indentation, depth)
FindReport ==
    \E indentation \in {0, 2}, depth \in {DNone, DNum(0), DNum(1), DNum(2), DNum(3)} :
        /\ nres = NoRes
        /\ nres' = [val |-> Node_report(nodes, 1, indentation, depth), self |-> 1,
                    indentation |-> indentation, depth |-> depth, op |-> "report"]
        /\ UNCHANGED <<nodes, cret, misuse, statVars, traceVars>>

FindNext == FindChild \/ FindFind \/ FindReport

SpecFind == NodeInit /\ [][FindNext]_vars

(***************************************************************************)
(* C11                                                                     *)
(***************************************************************************)
\* The proper descendants of the receiver of the last call that carry the
\* label it asked for.
Matches == {n \in Descendants(nodes, nres.self) : nodes[n].label = nres.label}

\* C11 as claimed: find returns a proper descendant carrying the label
\* whenever there is one, and never the receiver; when there is none it
\* returns None, or raises KeyError if raise_keyerror is set.
C11_Find ==
    nres.op = "find" =>
        IF Matches # {}
        THEN nres.ok /\ nres.val \in Matches /\ nres.val # nres.self
        ELSE IF nres.raise_keyerror THEN ~nres.ok /\ nres.exc = "KeyError"
        ELSE nres.ok /\ nres.val = 0

\* What find does do. C11 for raise_keyerror = True; without it, only:
\* a node returned is a proper descendant carrying the label, None is returned
\* when there is none, and the call does not raise.
C11_FindStrictOnly ==
    nres.op = "find" =>
        IF nres.raise_keyerror
        THEN IF Matches # {} THEN nres.ok /\ nres.val \in Matches
             ELSE ~nres.ok /\ nres.exc = "KeyError"
        ELSE /\ nres.ok
             /\ nres.val # 0 => nres.val \in Matches
             /\ Matches = {} => nres.val = 0

\* find(label) returned None although a grandchild under the second child
\* carries the label.
C11_Witness ==
    /\ nres.op = "find"
    /\ ~nres.raise_keyerror
    /\ nres.ok
    /\ nres.val = 0
    /\ Matches # {}

(***************************************************************************)
(* C19                                                                     *)
(***************************************************************************)
\* The children of the nodes of seq, in order.
RECURSIVE ChildrenOf(_, _)
ChildrenOf(heap, seq) ==
    IF seq = <<>> THEN <<>>
    ELSE heap[Head(seq)].children \o ChildrenOf(heap, Tail(seq))

\* The proper descendants of the nodes of seq level by level, each level from
\* left to right.
RECURSIVE BreadthFirst(_, _)
BreadthFirst(heap, seq) ==
    LET below == ChildrenOf(heap, seq)
    IN  IF below = <<>> THEN <<>> ELSE below \o BreadthFirst(heap, below)

\* The first node of seq carrying label, 0 if there is none.
FirstLabelled(heap, seq, label) ==
    LET hits == {i \in 1..Len(seq) : heap[seq[i]].label = label}
    IN  IF hits = {} THEN 0 ELSE seq[CHOOSE i \in hits : \A j \in hits : i <= j]

\* C19 as claimed: a node returned by find is the first one carrying the label
\* in breadth-first order below the receiver: of minimal depth, and the
\* leftmost of that depth.
C19_FindBreadthFirst ==
    (nres.op = "find" /\ nres.ok /\ nres.val # 0) =>
        nres.val = FirstLabelled(nodes, BreadthFirst(nodes, <<nres.self>>), nres.label)

\* find returned a node three levels down under the first child although a
\* node two levels down under the second child carries the label.
C19_Witness ==
    /\ nres.op = "find"
    /\ nres.ok
    /\ nres.val # 0
    /\ Node_level(nodes, nres.val) = 3
    /\ \E n \in Matches : Node_level(nodes, n) = 2

(***************************************************************************)
(* C12                                                                     *)
(***************************************************************************)
\* The node n, then each child's listing in children order, down to depth
\* levels below n (all the way when depth is None), two spaces per level.
RECURSIVE PreOrder(_, _, _, _), PreOrderChildren(_, _, _, _, _)
PreOrder(heap, n, indentation, depth) ==
    <<[node |-> n, indent |-> indentation]>> \o
        (IF depth.none \/ depth.n > 0
         THEN PreOrderChildren(heap, n, indentation,
                               IF depth.none THEN DNone ELSE DNum(depth.n - 1), 1)
         ELSE <<>>)

PreOrderChildren(heap, n, indentation, below, i) ==
    IF i > Len(heap[n].children) THEN <<>>
    ELSE PreOrder(heap, heap[n].children[i], indentation + 2, below)
             \o PreOrderChildren(heap, n, indentation, below, i + 1)

\* C12 as claimed: report(depth = d) lists the receiver and then every child's
\* report with depth d - 1, the same for every child: the nodes at most d
\* levels below the receiver in pre-order, two more spaces per level.
C12_Report ==
    nres.op = "report" =>
        nres.val = PreOrder(nodes, nres.self, nres.indentation, nres.depth)

\* What report does do: the listing is the claimed one when depth is None or
\* at most 1; it always starts with the receiver and is never longer than the
\* claimed listing.
C12_ReportShallow ==
    nres.op = "report" =>
        /\ (nres.depth.none \/ nres.depth.n <= 1)
             => nres.val = PreOrder(nodes, nres.self, nres.indentation, nres.depth)
        /\ nres.val[1] = [node |-> nres.self, indent |-> nres.indentation]
        /\ Len(nres.val) <= Len(PreOrder(nodes, nres.self, nres.indentation, nres.depth))

\* report(depth = 2) listed the child of the first child but not the child of
\* the second child.
C12_Witness ==
    /\ nres.op = "report"
    /\ nres.depth = DNum(2)
    /\ Len(nodes[1].children) >= 2
    /\ \E g \in Range(nodes[nodes[1].children[1]].children) :
         \E i \in 1..Len(nres.val) : nres.val[i].node = g
    /\ \E g \in Range(nodes[nodes[1].children[2]].children) :
         \A i \in 1..Len(nres.val) : nres.val[i].node # g

(***************************************************************************)
(* Statistic arithmetic on a heap of objects: new, add, plus, scalarize    *)
(***************************************************************************)
ArithOthers == {PyNone} \cup {PyNum(v) : v \in PoolVals}

\* Statistic(value, repr, count); a second object takes the first one's mode
\* or the next one
ArithNew ==
    \E value \in PoolVals, repr \in Modes, count \in BOOLEAN :
        /\ Len(sheap) < 2
        /\ sheap # <<>> => repr \in {sheap[1].repr, NextMode(sheap[1].repr)}
        /\ sheap' = Append(sheap, Statistic_init(value, repr, count))
        /\ sres' = NoRes
        /\ UNCHANGED <<hist, nodeVars, traceVars>>

\* v.add(value) on the first object, before any other is allocated
ArithAdd ==
    \E self \in {1}, value \in PoolVals :
        /\ Len(sheap) = 1
        /\ sheap[self].ctr <= PoolAdds
        /\ sheap' = [sheap EXCEPT ![self] = Statistic_add(@, value)]
        /\ sres' = NoRes
        /\ UNCHANGED <<hist, nodeVars, traceVars>>

\* v + other, for other None, a number or a Statistic
ArithPlus ==
    \E self \in 1..Len(sheap) :
        \E other \in ArithOthers \cup {PyRef(j) : j \in 1..Len(sheap)} :
            \E r \in {Statistic__add__(sheap, self, other)} :
                /\ Len(r.heap) <= MaxObjs
                /\ sheap' = r.heap
                /\ sres' = [out |-> Outcome(r), self |-> self, other |-> other,
                            op |-> "plus", pre |-> sheap]
                /\ UNCHANGED <<hist, nodeVars, traceVars>>

\* other + v, for other None or a number
ArithRPlus ==
    \E self \in 1..Len(sheap), other \in ArithOthers :
        \E r \in {Statistic__radd__(sheap, self, other)} :
            /\ Len(r.heap) <= MaxObjs
            /\ sheap' = r.heap
            /\ sres' = [out |-> Outcome(r), self |-> self, other |-> other,
                        op |-> "rplus", pre |-> sheap]
            /\ UNCHANGED <<hist, nodeVars, traceVars>>

\* float(v)
ArithFloat ==
    \E self \in 1..Len(sheap) :
        /\ sres' = [out |-> Statistic__float__(sheap[self]), self |-> self,
                    other |-> PyNone, op |-> "float", pre |-> sheap]
        /\ UNCHANGED <<sheap, hist, nodeVars, traceVars>>

ArithNext == ArithNew \/ ArithAdd \/ ArithPlus \/ ArithRPlus \/ ArithFloat

SpecArith == StatInit /\ [][ArithNext]_vars

(***************************************************************************)
(* C14                                                                     *)
(***************************************************************************)
\* C14 as claimed: float(v) returns a number and raises nothing for every
\* Statistic v built by Statistic(value, mode, count), add and + in any of the
\* five modes.
C14_ScalarizeTotal ==
    sres.op = "float" => sres.out.ok

\* float(v) raises nothing but ZeroDivisionError, and raises that exactly for
\* an avg or variance Statistic that holds no observation.
C14_ScalarizeCounted ==
    sres.op = "float" =>
        LET v == sres.pre[sres.self]
        IN  IF v.ctr = 0 /\ v.repr \in {"avg", "variance"}
            THEN ~sres.out.ok /\ sres.out.exc = "ZeroDivisionError"
            ELSE sres.out.ok

\* float of the result of a + on a counting avg Statistic
C14_Witness ==
    /\ sres.op = "float"
    /\ sres.self = 2
    /\ sheap[1].repr = "avg"
    /\ sheap[2] = Statistic_add(sheap[1], 2)
    /\ sres.out.ok
    /\ sres.out.val = Rat(sheap[2].sum, sheap[2].ctr)

(***************************************************************************)
(* C16                                                                     *)
(***************************************************************************)
\* the fields of a + b for two Statistics of one mode
CombinedFields(a, b) ==
    [repr |-> a.repr, min |-> Min2(a.min, b.min),
     max |-> Max2(a.max, b.max), sum |-> a.sum + b.sum,
     sqr |-> a.sqr + b.sqr, ctr |-> a.ctr + b.ctr]

\* C16: v + None, v + number, v + Statistic, None + v and number + v leave
\* every existing Statistic, v included, with the fields it had; when they
\* return, the result is an object that did not exist before, holding v's
\* fields for None, v's fields with the number inserted (count + 1) for a
\* number, and the combined fields for a Statistic.
C16_PlusPure ==
    sres.op \in {"plus", "rplus"} =>
        LET pre == sres.pre
            v == pre[sres.self]
            o == sres.other
        IN  /\ \A i \in 1..Len(pre) : sheap[i] = pre[i]
            /\ sres.out.ok =>
                /\ sres.out.val \notin 1..Len(pre)
                /\ sres.out.val \in 1..Len(sheap)
                /\ sheap[sres.out.val] =
                      CASE o.kind = "none" -> v
                        [] o.kind = "num" ->
                             [v EXCEPT !.min = Min2(@, o.n), !.max = Max2(@, o.n),
                                       !.sum = @ + o.n, !.sqr = @ + o.n * o.n,
                                       !.ctr = @ + 1]
                        [] OTHER -> CombinedFields(v, pre[o.id])
            /\ ~sres.out.ok => o.kind = "ref" /\ v.repr # pre[o.id].repr

\* number + v returned a new object and v kept its fields
C16_Witness ==
    /\ sres.op = "rplus"
    /\ sres.other.kind = "num"
    /\ sres.out.ok
    /\ sres.out.val = Len(sheap)
    /\ sheap[sres.out.val].ctr = sheap[sres.self].ctr + 1
    /\ sheap[sres.self] = sres.pre[sres.self]

(***************************************************************************)
(* C15                                                                     *)
(***************************************************************************)
\* the nodes of B whose counterpart in A holds, under some tag, a value of
\* the other kind (number against Statistic) before the merge
MixedKinds(pre) ==
    {b \in Subtree(pre, 2) :
        LET a == NodeAt(pre, 1, PathTo(pre, b, 2))
        IN  /\ a # 0
            /\ \E tag \in DictKeys(pre[b].data) \cap DictKeys(pre[a].data) :
                  DictItem(pre[a].data, tag).kind # DictItem(pre[b].data, tag).kind}

\* C15 as claimed: A.merge(B) raises whenever a node of B and its counterpart
\* in A hold a number and a Statistic under one tag.
C15_MergeRejectsMixed ==
    (nres.op = "merge" /\ MixedKinds(nres.pre) # {}) => ~nres.ok

\* A merge returned after inserting B's number into A's Statistic as one more
\* observation.
C15_Witness ==
    /\ nres.op = "merge"
    /\ nres.ok
    /\ \E tag \in DictKeys(nres.pre[1].data) \cap DictKeys(nres.pre[2].data) :
          LET x == DictItem(nres.pre[1].data, tag)
              y == DictItem(nres.pre[2].data, tag)
              z == DictItem(nodes[1].data, tag)
          IN  /\ x.kind = "stat"
              /\ y.kind = "num"
              /\ z.kind = "stat"
              /\ z.s.ctr = x.s.ctr + 1
              /\ z.s.sum = x.s.sum + y.n

(***************************************************************************)
(* Lookup of children by label                                             *)
(***************************************************************************)
GetLabels == {LStr("foo"), LStr("bar"), LTup("foo", 0), LTup("foo", 3), LTup("bar", 0)}

\* self.child(label) creating a node, level by level as in FindChild
GetChild ==
    \E self \in Subtree(nodes, 1), label \in GetLabels :
        \E r \in {Node_child(nodes, self, label)} :
            /\ nres = NoRes
            /\ r.heap # nodes
            /\ self >= nodes[Len(nodes)].parent
            /\ Len(r.heap) - 2 <= GetSize
            /\ nodes' = r.heap
            /\ UNCHANGED <<nres, cret, misuse, statVars, traceVars>>

\* self.get(label)
GetGet ==
    \E self \in Subtree(nodes, 1), label \in GetLabels :
        \E r \in {Node_get(nodes, self, label)} :
            /\ nres = NoRes
            /\ nres' = [ok |-> r.ok, exc |-> r.exc, val |-> r.val, self |-> self,
                        label |-> label, shape |-> r.shape, op |-> "get"]
            /\ UNCHANGED <<nodes, cret, misuse, statVars, traceVars>>

GetNext == GetChild \/ GetGet

SpecGet == NodeInit /\ [][GetNext]_vars

(***************************************************************************)
(* C17                                                                     *)
(***************************************************************************)
\* C17: self.get(label) returns the one child of self whose label equals
\* label if there is one, tuple-labelled children or not; otherwise, if some
\* children of self have a tuple label whose first component is label, it
\* returns exactly those, in the order of self.children; otherwise it raises
\* AttributeError.  Nothing but children of self is ever returned.
C17_Get ==
    nres.op = "get" =>
        LET ch == nodes[nres.self].children
            equal == {i \in 1..Len(ch) : nodes[ch[i]].label = nres.label}
            family == {i \in 1..Len(ch) :
                          /\ nodes[ch[i]].label.tuple
                          /\ ~nres.label.tuple
                          /\ nodes[ch[i]].label.s = nres.label.s}
        IN  /\ \A k \in 1..Len(nres.val) : nodes[nres.val[k]].parent = nres.self
            /\ IF equal # {}
               THEN /\ nres.ok /\ nres.shape = "node"
                    /\ Cardinality(equal) = 1
                    /\ \E i \in equal : nres.val = <<ch[i]>>
               ELSE IF family # {}
               THEN /\ nres.ok /\ nres.shape = "tuple"
                    /\ Len(nres.val) = Cardinality(family)
                    /\ \A k \in 1..Len(nres.val) :
                         \E i \in family :
                            /\ nres.val[k] = ch[i]
                            /\ Cardinality({j \in family : j < i}) = k - 1
               ELSE ~nres.ok /\ nres.exc = "AttributeError"

\* get("foo") returned the child labelled "foo" although a child labelled
\* ("foo", 0) stands before it and has a child ("foo", 3) of its own
C17_Witness ==
    /\ nres.op = "get" /\ nres.self = 1 /\ nres.label = LStr("foo")
    /\ nres.ok /\ nres.shape = "node"
    /\ \E i, j \in 1..Len(nodes[1].children) :
          /\ i < j
          /\ nodes[nodes[1].children[i]].label = LTup("foo", 0)
          /\ nodes[nodes[1].children[i]].children # <<>>
          /\ nodes[1].children[j] = nres.val[1]

(***************************************************************************)
(* C18                                                                     *)
(***************************************************************************)
OpenLabels == [i \in 1..Len(scopes) |-> scopes[i].ctx.what]

\* The cursor is a node of the tree, and the labels from below the root down
\* to it are those of the open blocks, outermost first (so it is the root
\* when no block is open, and where it was before a block once that is left).
CursorMirrorsScopes ==
    /\ tracer.current \in 1..Len(nodes)
    /\ tracer.trace = 1
    /\ PathTo(nodes, tracer.current, tracer.trace) = OpenLabels

\* No step removes, relabels or moves a node, and a step adds at most one: by
\* an enter under a cursor that has no child with the label.
NodesOnlyAdded ==
    /\ Len(nodes') >= Len(nodes)
    /\ Len(nodes') <= Len(nodes) + 1
    /\ \A n \in 1..Len(nodes) :
          /\ nodes'[n].label = nodes[n].label
          /\ nodes'[n].parent = nodes[n].parent
          /\ IsPrefix(nodes[n].children, nodes'[n].children)
    /\ Len(nodes') = Len(nodes) + 1 =>
          /\ Len(calls') = Len(calls) + 1
          /\ calls'[Len(calls')].op = "enter"
          /\ ~HasChildLabelled(nodes, tracer.current, calls'[Len(calls')].what)
          /\ nodes'[Len(nodes')].parent = tracer.current
          /\ nodes'[Len(nodes')].label = calls'[Len(calls')].what

\* C18 as claimed: on a TimeTreeTracer or BKZTreeTracer used through nested
\* with-blocks (so that every exit answers an open enter), the cursor is
\* always a node of the tree whose path from the root carries the labels of
\* the open blocks, and nodes are only ever added, one per enter of a label
\* not yet present under the cursor.
C18_TreeMirrorsScopes ==
    /\ [](tracer.kind \in {"time", "bkz"} => CursorMirrorsScopes)
    /\ [][tracer.kind \in {"time", "bkz"} => NodesOnlyAdded]_vars

\* The same as long as no call of exit has raised.
C18_TreeMirrorsScopesUnlessRaised ==
    /\ []((tracer.kind \in {"time", "bkz"} /\ \A i \in 1..Len(calls) : calls[i].ok)
            => CursorMirrorsScopes)
    /\ [][tracer.kind \in {"time", "bkz"} => NodesOnlyAdded]_vars

\* Two nested blocks have been opened and left on a BKZTreeTracer, and the
\* cursor is back at the root.
C18_Witness ==
    /\ tracer.kind = "bkz"
    /\ scopes = <<>>
    /\ Len(calls) = 4
    /\ calls[2].op = "enter"
    /\ \A i \in 1..4 : calls[i].ok
    /\ Len(nodes) = 3
    /\ nodes[3].parent = 2
    /\ tracer.current = tracer.trace

(***************************************************************************)
(* C20                                                                     *)
(***************************************************************************)
\* The accumulator a node holds under tag, an absent one being a Statistic
\* of mode sum with sum 0 and no observation.
Accumulator(heap, n, tag) ==
    IF n <= Len(heap) /\ tag \in DictKeys(heap[n].data)
    THEN DictItem(heap[n].data, tag)
    ELSE PyStat(Statistic_init(0, "sum", FALSE))

\* This step is a call of BKZTreeTracer.enter that returned.
ReenterStep ==
    /\ tracer.kind = "bkz"
    /\ Len(calls') = Len(calls) + 1
    /\ calls'[Len(calls')].op = "enter"
    /\ calls'[Len(calls')].ok

\* The accumulator under tag of the node entered by this step has mode sum
\* and its sum decreased by reading; counts tells how its count may change.
Restarted(tag, reading, first, later) ==
    LET n == tracer'.current
        old == Accumulator(nodes, n, tag)
        new == Accumulator(nodes', n, tag)
        had == n <= Len(nodes) /\ tag \in DictKeys(nodes[n].data)
    IN  /\ old.kind = "stat"
        /\ new.kind = "stat"
        /\ new.s.repr = "sum"
        /\ new.s.sum = old.s.sum - reading
        /\ new.s.ctr = old.s.ctr + (IF had THEN later ELSE first)

\* The accumulators of a root whose clocks were started by the constructor
StartedRoot(count) ==
    (tracer.kind = "bkz" /\ calls = <<>> /\ nodes[1].data # <<>>) =>
        /\ Accumulator(nodes, 1, "cputime").s =
              [Statistic_init(-StartClock.cpu, "sum", FALSE) EXCEPT !.ctr = count,
                    !.min = Min2(@, 0), !.max = Max2(@, 0)]
        /\ Accumulator(nodes, 1, "walltime").s.ctr = count
        /\ Accumulator(nodes, 1, "walltime").s.sum = -StartClock.wall

\* C20 as claimed: the reenter of every BKZTreeTracer.enter, and the one of
\* the constructor with start_clocks, leaves the count of the cputime and of
\* the walltime accumulator as it was (0 for an absent one), the mode sum,
\* and the sum decreased by the clock reading, on the first entry of a node
\* as on every later one.
C20_ReenterKeepsCount ==
    /\ [](calls = <<>> /\ nodes # <<>> /\ nodes[1].data # <<>>
            => Accumulator(nodes, 1, "cputime").s.ctr = 0
               /\ Accumulator(nodes, 1, "walltime").s.ctr = 0)
    /\ [][ReenterStep => /\ Restarted("cputime", clock.cpu, 0, 0)
                         /\ Restarted("walltime", clock.wall, 0, 0)]_vars

\* What the code does: the first reenter of a node counts one observation (the
\* 0 it starts from), every later one none.
C20_ReenterCountsFirst ==
    /\ [](StartedRoot(1))
    /\ [][ReenterStep => /\ Restarted("cputime", clock.cpu, 1, 0)
                         /\ Restarted("walltime", clock.wall, 1, 0)]_vars

\* A node has been entered, left and entered again; its cputime accumulator
\* then counts two observations: the 0 of the first reenter and the reading
\* added by the exit.
C20_Witness ==
    /\ tracer.kind = "bkz"
    /\ Len(calls) = 3
    /\ calls[3].op = "enter"
    /\ \A i \in 1..3 : calls[i].ok
    /\ Len(nodes) = 2
    /\ tracer.current = 2
    /\ Accumulator(nodes, 2, "cputime").s.ctr = 2

(***************************************************************************)
(* Tours on a BKZTreeTracer with and without verbosity                     *)
(***************************************************************************)
\* The blocks of a tour: tracer.context(args, kwds)
ReportWiths ==
    {[kwds |-> <<>>, args |-> <<"tour", 0>>],
     [kwds |-> <<>>, args |-> <<"preprocessing">>],
     [kwds |-> <<>>, args |-> <<"lll">>],
     [kwds |-> <<[v |-> PyNum(2), k |-> "enum_obj"]>>, args |-> <<"enumeration">>]}

\* BKZTreeTracer(instance, verbosity)
ReportInit ==
    /\ sheap = <<>>
    /\ hist = NoHist
    /\ sres = NoRes
    /\ nres = NoRes
    /\ cret = {}
    /\ misuse = <<>>
    /\ clock = StartClock
    /\ \E instance \in Instances, verbosity \in {0, 1} :
         \E r \in {BKZTreeTracer_init(<<>>, instance, verbosity, LStr("bkz"), FALSE,
                                      StartClock)} :
             /\ nodes = r.heap
             /\ tracer = r.tr
             /\ spent = [n \in 1..Len(r.heap) |-> NoSpent]
    /\ scopes = <<>>
    /\ pending = NoPending
    /\ calls = <<>>
    /\ out = <<>>

\* with tracer.context(args, kwds): the context's __enter__.  The outermost
\* block is a tour, the phases are blocks inside it.
ReportOpen ==
    \E with \in ReportWiths :
        \E self \in {TraceContext_init(with.args, with.kwds)} :
        \E e \in {TraceContext__enter__(nodes, tracer, self, clock)} :
            /\ Cardinality(Enters) < ReportScopes
            /\ scopes = <<>> => LabelIsTour(self.what)
            /\ e.r.ok
            /\ nodes' = e.r.heap
            /\ tracer' = e.r.tr
            /\ calls' = calls \o e.made
            /\ scopes' = Append(scopes, [node |-> e.r.tr.current, ctx |-> self, t0 |-> clock])
            /\ UNCHANGED <<clock, pending, spent, out, nres, cret, misuse, statVars>>

\* The innermost with-block ends, its body having taken no time or one step
\* of the clocks: the context's __exit__
ReportClose ==
    /\ scopes # <<>>
    /\ \E top \in {scopes[Len(scopes)]} :
       \E step \in (IF clock.cpu < MaxClock THEN {0, 1} ELSE {0}) :
       \E clk \in {[cpu |-> clock.cpu + step, wall |-> clock.wall + 2 * step]} :
       \E x \in {TraceContext__exit__(nodes, tracer, top.ctx, "", clk)} :
           /\ x.r.ok
           /\ clock' = clk
           /\ nodes' = x.r.heap
           /\ tracer' = x.r.tr
           /\ calls' = calls \o x.made
           /\ scopes' = SubSeq(scopes, 1, Len(scopes) - 1)
           /\ out' = out \o ExitPrinted(nodes, tracer, x.r)
    /\ UNCHANGED <<pending, spent, nres, cret, misuse, statVars>>

ReportNext == ReportOpen \/ ReportClose

SpecReport == ReportInit /\ [][ReportNext]_vars

(***************************************************************************)
(* C13                                                                     *)
(***************************************************************************)
\* The sum over the nodes of S of the value under tag, an absent one being 0
RECURSIVE TotalIn(_, _, _)
TotalIn(heap, S, tag) ==
    IF S = {} THEN 0
    ELSE LET n == CHOOSE m \in S : TRUE
         IN  NumOf(DictGet(heap[n].data, tag, PyNum(0))) + TotalIn(heap, S \ {n}, tag)

\* The report's field for a phase is there exactly when the node has a
\* descendant with the phase's label.
PhaseField(heap, n, report, key, phase) ==
    key \in DictKeys(report) <=> \E m \in Descendants(heap, n) : heap[m].label = LStr(phase)

\* report is the report of tour node n in heap
IsTourReport(heap, n, report) ==
    /\ {"i", "cputime", "walltime", "lll", "#enum"} \subseteq DictKeys(report)
    /\ DictItem(report, "i") = PyNum(heap[n].label.i)
    /\ DictItem(report, "cputime") = DictItem(heap[n].data, "cputime")
    /\ DictItem(report, "walltime") = DictItem(heap[n].data, "walltime")
    /\ NumOf(DictItem(report, "lll")) =
          TotalIn(heap, {m \in Subtree(heap, n) : heap[m].label = LStr("lll")}, "cputime")
    /\ NumOf(DictItem(report, "#enum")) = TotalIn(heap, Subtree(heap, n), "#enum")
    /\ PhaseField(heap, n, report, "preproc", "preprocessing")
    /\ PhaseField(heap, n, report, "svp", "enumeration")
    /\ PhaseField(heap, n, report, "postproc", "postprocessing")
    /\ PhaseField(heap, n, report, "pruner", "pruner")

\* This step is a call of BKZTreeTracer.exit
ExitStep ==
    /\ tracer.kind = "bkz"
    /\ Len(calls') = Len(calls) + 1
    /\ calls'[Len(calls')].op = "exit"

C13Step ==
    IF ExitStep /\ tracer.verbosity > 0 /\ nodes[tracer.current].label.tuple
          /\ nodes[tracer.current].label.s = "tour"
    THEN /\ Len(out') = Len(out) + 1
         /\ SubSeq(out', 1, Len(out)) = out
         /\ out'[Len(out')].node = tracer.current
         /\ out'[Len(out')].report.ok
         /\ IsTourReport(nodes', tracer.current, out'[Len(out')].report.d)
         /\ tracer'.current = nodes[tracer.current].parent
    ELSE out' = out

\* C13: BKZTreeTracer.exit on a node labelled ("tour", i) prints one report
\* if verbosity > 0 and none otherwise; the report is about the node the
\* cursor is leaving and holds i, the node's cputime and walltime as the exit
\* left them, under lll the sum of cputime over the nodes labelled "lll" in
\* the node's subtree, under #enum the sum of "#enum" over the subtree, and
\* preproc, svp, postproc, pruner exactly when the node has a descendant
\* labelled preprocessing, enumeration, postprocessing, pruner.  No other
\* step prints anything.
C13_TourReport == [][C13Step]_vars

\* A tour has been reported whose lll field adds up two nodes labelled "lll",
\* one of them below preprocessing, each having taken time.
C13_Witness ==
    /\ Len(out) = 1
    /\ scopes = <<>>
    /\ \E a, b \in Subtree(nodes, out[1].node) :
          /\ a # b
          /\ nodes[a].label = LStr("lll")
          /\ nodes[b].label = LStr("lll")
          /\ NumOf(DictItem(nodes[a].data, "cputime")) > 0
          /\ NumOf(DictItem(nodes[b].data, "cputime")) > 0
          /\ NumOf(DictItem(out[1].report.d, "lll"))
                = NumOf(DictItem(nodes[a].data, "cputime"))
                  + NumOf(DictItem(nodes[b].data, "cputime"))
    /\ "preproc" \in DictKeys(out[1].report.d)
    /\ "svp" \notin DictKeys(out[1].report.d)

(***************************************************************************)
(* Enumerations on a BKZTreeTracer                                         *)
(***************************************************************************)
Kw(k, v) == [v |-> PyNum(v), k |-> k]

\* The blocks: tracer.context("enumeration", kwds) with and without full and
\* probability (full = 0 is False, 1 is True), and an lll block given the
\* same kwds
EnumWiths ==
    {[kwds |-> <<Kw("enum_obj", 2), Kw("probability", 1)>>, args |-> <<"enumeration">>],
     [kwds |-> <<Kw("enum_obj", 1)>>, args |-> <<"enumeration">>],
     [kwds |-> <<Kw("enum_obj", 1), Kw("full", 1), Kw("probability", 3)>>,
      args |-> <<"enumeration">>],
     [kwds |-> <<Kw("enum_obj", 2), Kw("full", 0), Kw("probability", 3)>>,
      args |-> <<"enumeration">>],
     [kwds |-> <<Kw("full", 0)>>, args |-> <<"enumeration">>],
     [kwds |-> <<Kw("enum_obj", 2), Kw("probability", 1)>>, args |-> <<"lll">>]}

\* BKZTreeTracer(instance)
EnumInit ==
    /\ sheap = <<>>
    /\ hist = NoHist
    /\ sres = NoRes
    /\ nres = NoRes
    /\ cret = {}
    /\ misuse = <<>>
    /\ clock = StartClock
    /\ \E instance \in Instances :
         \E r \in {BKZTreeTracer_init(<<>>, instance, 0, LStr("bkz"), FALSE, StartClock)} :
             /\ nodes = r.heap
             /\ tracer = r.tr
             /\ spent = [n \in 1..Len(r.heap) |-> NoSpent]
    /\ scopes = <<>>
    /\ pending = NoPending
    /\ calls = <<>>
    /\ out = <<>>

\* with tracer.context(args, kwds): the context's __enter__
EnumOpen ==
    \E with \in EnumWiths :
        \E self \in {TraceContext_init(with.args, with.kwds)} :
        \E e \in {TraceContext__enter__(nodes, tracer, self, clock)} :
            /\ Cardinality(Enters) < EnumScopes
            /\ e.r.ok
            /\ nodes' = e.r.heap
            /\ tracer' = e.r.tr
            /\ calls' = calls \o e.made
            /\ scopes' = Append(scopes, [node |-> e.r.tr.current, ctx |-> self, t0 |-> clock])
            /\ UNCHANGED <<clock, pending, spent, out, nres, cret, misuse, statVars>>

\* The innermost with-block ends: the context's __exit__
EnumClose ==
    /\ scopes # <<>>
    /\ \E top \in {scopes[Len(scopes)]} :
       \E x \in {TraceContext__exit__(nodes, tracer, top.ctx, "", clock)} :
           /\ x.r.ok
           /\ nodes' = x.r.heap
           /\ tracer' = x.r.tr
           /\ calls' = calls \o x.made
           /\ scopes' = SubSeq(scopes, 1, Len(scopes) - 1)
           /\ out' = out \o ExitPrinted(nodes, tracer, x.r)
    /\ UNCHANGED <<clock, pending, spent, nres, cret, misuse, statVars>>

EnumNext == EnumOpen \/ EnumClose

SpecEnum == EnumInit /\ [][EnumNext]_vars

(***************************************************************************)
(* C21                                                                     *)
(***************************************************************************)
\* Over this step the value of node n under tag has been combined with one
\* observation v in a Statistic of mode repr, an absent value counting as
\* none.
TagCombined(n, tag, repr, v) ==
    /\ tag \in DictKeys(nodes'[n].data)
    /\ LET new == DictItem(nodes'[n].data, tag)
           had == tag \in DictKeys(nodes[n].data)
           old == IF had THEN DictItem(nodes[n].data, tag).s ELSE NoStat
       IN  /\ new.kind = "stat"
           /\ new.s.repr = repr
           /\ new.s.ctr = (IF had THEN old.ctr ELSE 0) + 1
           /\ new.s.sum = (IF had THEN old.sum ELSE 0) + v
           /\ new.s.min = (IF had THEN Min2(old.min, v) ELSE v)
           /\ new.s.max = (IF had THEN Max2(old.max, v) ELSE v)

\* Over this step node n has under tag what it had, or still nothing.
TagUntouched(n, tag) ==
    IF tag \in DictKeys(nodes[n].data)
    THEN tag \in DictKeys(nodes'[n].data)
         /\ DictItem(nodes'[n].data, tag) = DictItem(nodes[n].data, tag)
    ELSE tag \notin DictKeys(nodes'[n].data)

\* The effect of an exit step on "#enum" and "%" of the node being left;
\* always tells whether a probability is taken on exits that are not full.
EnumerationTags(always) ==
    ExitStep =>
        LET n == tracer.current
            kwds == calls'[Len(calls')].kwds
            full == Truthy(DictGet(kwds, "full", PyNum(1)))
            given == "probability" \in DictKeys(kwds)
        IN  IF nodes[n].label = LStr("enumeration")
            THEN /\ IF full
                    THEN TagCombined(n, "#enum", "sum", DictItem(kwds, "enum_obj").n)
                    ELSE TagUntouched(n, "#enum")
                 /\ IF given /\ (full \/ always)
                    THEN TagCombined(n, "%", "avg", DictItem(kwds, "probability").n)
                    ELSE TagUntouched(n, "%")
            ELSE TagUntouched(n, "#enum") /\ TagUntouched(n, "%")

\* C21 as claimed: BKZTreeTracer.exit on an "enumeration" node combines
\* "#enum" (mode sum) with enum_obj's node count exactly when full is true
\* (the default), and combines "%" (mode avg) with probability on every exit
\* that is given one, leaving it as it was otherwise; the exit of a node with
\* another label changes neither tag.
C21_EnumerationTags == [][EnumerationTags(TRUE)]_vars

\* What the code does: the same, except that a probability is taken only on
\* exits that are full.
C21_PercentOnlyWhenFull == [][EnumerationTags(FALSE)]_vars

\* An enumeration node has been left twice, first full with a probability,
\* then not full with another one: "#enum" and "%" hold the first exit only.
C21_Witness ==
    /\ tracer.kind = "bkz"
    /\ scopes = <<>>
    /\ Len(calls) = 4
    /\ calls[2].op = "exit"
    /\ calls[2].kwds = <<Kw("enum_obj", 2), Kw("probability", 1)>>
    /\ calls[4].kwds = <<Kw("enum_obj", 2), Kw("full", 0), Kw("probability", 3)>>
    /\ Len(nodes) = 2
    /\ DictItem(nodes[2].data, "#enum").s.sum = 2
    /\ DictItem(nodes[2].data, "%").s.ctr = 1
    /\ DictItem(nodes[2].data, "%").s.sum = 1

====
